--------------------- MODULE OrchestrationWorker_proofs ---------------------
(* Theorems about OrchestrationWorker, for every value of its constants. *)
EXTENDS OrchestrationWorker, FiniteSetTheorems, TLAPS

\* The size assumptions one by one, as the provers want them.
LEMMA Sizes ==
  /\ MaxRetries \in Nat /\ BatchSize \in Nat /\ ReclaimEvery \in Nat
  /\ ReclaimEvery > 0 /\ MaxRetries > 0
  /\ MaxMsgs \in Nat /\ MaxFaults \in Nat
BY SizesAssumption

LEMMA FaultType == TypeOK /\ Fault => faults' \in 0..MaxFaults
BY Sizes DEF TypeOK, Fault

LEMMA CycleType ==
  ASSUME TypeOK, NEW w \in Workers
  PROVE  NextCycle(w) \in 0..(ReclaimEvery - 1)
<1>1. worker[w].cycle \in Nat
  BY Sizes DEF TypeOK, WorkerState
<1> QED
  BY <1>1, Sizes DEF NextCycle

LEMMA RecordType ==
  ASSUME TypeOK, NEW w \in Workers, NEW o \in Outcomes, Record(w, o)
  PROVE  outcomes' \in [Msgs -> [Outcomes -> Nat]]
<1> DEFINE c == worker[w].cur
<1>1. CASE c \in Msgs
  <2>1. outcomes[c] \in [Outcomes -> Nat] /\ outcomes[c][o] + 1 \in Nat
    BY <1>1 DEF TypeOK
  <2>2. [outcomes[c] EXCEPT ![o] = outcomes[c][o] + 1] \in [Outcomes -> Nat]
    BY <2>1
  <2> QED
    BY <1>1, <2>2 DEF Record, TypeOK
<1>2. CASE c \notin Msgs
  BY <1>2 DEF Record, TypeOK
<1> QED
  BY <1>1, <1>2

\* What XREADGROUP returns was never delivered before and is in the stream.
LEMMA NewEntriesAreNew ==
  ASSUME TypeOK
  PROVE  /\ NewEntries \in SUBSET ((cursor + 1)..Len(log))
         /\ NewEntries \in SUBSET Msgs
<1> DEFINE skipped == IF cursor < trimmed THEN trimmed ELSE cursor
<1>1. Len(log) \in Nat /\ Len(log) <= MaxMsgs
  BY DEF TypeOK
<1>2. skipped \in Nat /\ cursor \in Nat /\ cursor <= skipped
  BY <1>1 DEF TypeOK
<1>3. NewEntries = {m \in (skipped + 1)..Len(log) : m <= skipped + BatchSize}
  BY DEF NewEntries
<1> HIDE DEF skipped
<1> QED
  BY <1>1, <1>2, <1>3, Sizes DEF Msgs

LEMMA PelInMsgs == TypeOK => 1..cursor \subseteq Msgs /\ pel \subseteq Msgs
<1> SUFFICES ASSUME TypeOK PROVE 1..cursor \subseteq Msgs /\ pel \subseteq Msgs
  OBVIOUS
<1>1. cursor \in Nat /\ cursor <= MaxMsgs
  BY Sizes DEF TypeOK
<1> QED
  BY <1>1, Sizes DEF TypeOK, Msgs

LEMMA DeliverType ==
  ASSUME TypeOK, Deliver(NewEntries)
  PROVE  /\ cursor' \in cursor..Len(log)
         /\ pel' \in SUBSET (1..cursor') /\ stale' \in SUBSET pel'
         /\ deliveries' \in [Msgs -> 0..(MaxRetries + 1)]
         /\ UNCHANGED <<log, trimmed>>
<1>1. Len(log) \in Nat /\ cursor \in Nat
  BY DEF TypeOK
<1>2. cursor' \in cursor..Len(log) /\ \A m \in NewEntries : m \in 1..cursor'
  BY <1>1, NewEntriesAreNew DEF TypeOK, Deliver
<1>3. pel' \in SUBSET (1..cursor')
  <2>1. 1..cursor \subseteq 1..cursor'
    BY <1>1, <1>2
  <2> QED
    BY <1>2, <2>1 DEF TypeOK, Deliver
<1>4. stale' \in SUBSET pel'
  BY DEF TypeOK, Deliver
<1>5. deliveries' \in [Msgs -> 0..(MaxRetries + 1)]
  BY Sizes DEF TypeOK, Deliver
<1> QED
  BY <1>2, <1>3, <1>4, <1>5 DEF Deliver

LEMMA AcknowledgeType ==
  ASSUME TypeOK, NEW m, Acknowledge(m)
  PROVE  /\ pel' \in SUBSET (1..cursor) /\ stale' \in SUBSET pel'
         /\ deliveries' \in [Msgs -> 0..(MaxRetries + 1)]
BY DEF TypeOK, Acknowledge

LEMMA XClaimType ==
  ASSUME TypeOK, NEW m \in Msgs, XClaim(m)
  PROVE  /\ pel' \in SUBSET (1..cursor) /\ stale' \in SUBSET pel'
         /\ deliveries' \in [Msgs -> 0..(MaxRetries + 1)]
<1>1. CASE m <= trimmed /\ Acknowledge(m)
  BY <1>1, AcknowledgeType
<1>2. CASE m > trimmed /\ m \notin stale /\ UNCHANGED pelVars
  BY <1>2 DEF TypeOK, pelVars
<1>3. CASE /\ Claimable(m)
           /\ stale' = stale \ {m}
           /\ deliveries' = [deliveries EXCEPT ![m] =
                               IF @ > MaxRetries THEN @ ELSE @ + 1]
           /\ UNCHANGED pel
  <2>1. deliveries[m] \in 0..(MaxRetries + 1)
    BY DEF TypeOK
  <2>2. (IF deliveries[m] > MaxRetries THEN deliveries[m]
         ELSE deliveries[m] + 1) \in 0..(MaxRetries + 1)
    BY <2>1, Sizes
  <2> QED
    BY <1>3, <2>2 DEF TypeOK
<1> QED
  BY <1>1, <1>2, <1>3 DEF XClaim

\* A worker's local step stays within WorkerState when its new state does.
LEMMA WorkerType ==
  ASSUME TypeOK, NEW w \in Workers, NEW s \in WorkerState,
         worker' = [worker EXCEPT ![w] = s]
  PROVE  worker' \in [Workers -> WorkerState]
BY DEF TypeOK

LEMMA TypeInit == Init => TypeOK
<1> SUFFICES ASSUME Init PROVE TypeOK
  OBVIOUS
<1>1. Down \in WorkerState
  BY Sizes DEF Down, WorkerState, Phases
<1>2. log \in Seq(Kinds) /\ Len(log) = 0
  BY DEF Init
<1> QED
  BY <1>1, <1>2, Sizes DEF Init, TypeOK

LEMMA TypeNext == TypeOK /\ [Next]_vars => TypeOK'
<1> SUFFICES ASSUME TypeOK, [Next]_vars PROVE TypeOK'
  OBVIOUS
<1> USE DEF vars, streamVars, pelVars, historyVars
<1>0. Len(log) \in Nat
  BY DEF TypeOK
<1>1. ASSUME NEW k \in Kinds, Publish(k) PROVE TypeOK'
  <2>1. log' \in Seq(Kinds) /\ Len(log') = Len(log) + 1
    BY <1>1 DEF Publish, TypeOK
  <2>2. Len(log') <= MaxMsgs
    BY <1>0, <1>1, <2>1, Sizes DEF Publish
  <2>3. trimmed' \in 0..Len(log') /\ cursor' \in 0..Len(log')
    BY <1>0, <1>1, <2>1 DEF Publish, TypeOK
  <2> QED
    BY <1>1, <2>1, <2>2, <2>3 DEF Publish, TypeOK
<1>2. ASSUME NEW m \in Msgs, IdlePasses(m) PROVE TypeOK'
  BY <1>2 DEF IdlePasses, TypeOK
<1>3. ASSUME NEW w \in Workers, WorkerStep(w) PROVE TypeOK'
  <2> DEFINE s == worker[w]
  <2>0. s \in WorkerState
    BY DEF TypeOK
  <2> USE DEF Phases, WorkerState
  <2>1. CASE Start(w)
    BY <2>0, <2>1 DEF Start, TypeOK
  <2>2. CASE BeginReclaim(w)
    <3>1. \A m \in Msgs : [id |-> m, count |-> deliveries[m]] \in ScanEntries
      BY DEF ScanEntries, TypeOK
    <3> DEFINE window == {m \in pel :
                            Cardinality({n \in pel : n <= m}) <= ReclaimWindow}
               S == {[id |-> m, count |-> deliveries[m]] : m \in window \cap stale}
    <3>2. S \in SUBSET ScanEntries
      BY <3>1, PelInMsgs
    <3>3. worker' = [worker EXCEPT ![w].pc = "reclaim", ![w].scan = S]
      BY <2>2 DEF BeginReclaim
    <3> HIDE DEF S
    <3>4. worker' \in [Workers -> WorkerState]
      BY <2>0, <3>2, <3>3 DEF TypeOK
    <3> QED
      BY <2>2, <3>4 DEF BeginReclaim, TypeOK
  <2>3. CASE EndReclaim(w)
    BY <2>0, <2>3 DEF EndReclaim, TypeOK
  <2>4. ASSUME NEW e \in s.scan, ReclaimForRetry(w, e) PROVE TypeOK'
    <3>1. e.id \in Msgs
      BY <2>0 DEF ScanEntries
    <3> QED
      BY <2>0, <2>4, <3>1, XClaimType DEF ReclaimForRetry, TypeOK
  <2>5. ASSUME NEW e \in s.scan, ReclaimForDlq(w, e) PROVE TypeOK'
    <3>1. e.id \in Msgs
      BY <2>0 DEF ScanEntries
    <3> QED
      <4>1. worker' \in [Workers -> WorkerState]
        <5>1. CASE worker' = [worker EXCEPT ![w].scan = @ \ {e}]
          BY <2>0, <5>1 DEF TypeOK
        <5>2. CASE worker' = [worker EXCEPT ![w].scan = {}, ![w].pc = "read"]
          BY <2>0, <5>2 DEF TypeOK
        <5>3. CASE worker' = [worker EXCEPT ![w].scan = @ \ {e},
                                 ![w].pc = "dlq_add", ![w].cur = e.id]
          BY <2>0, <3>1, <5>3 DEF TypeOK
        <5> QED
          BY <2>5, <5>1, <5>2, <5>3 DEF ReclaimForDlq
      <4> QED
        BY <2>5, <3>1, <4>1, XClaimType DEF ReclaimForDlq, TypeOK
  <2>6. CASE AddToDlq(w)
    BY <2>0, <2>6, RecordType DEF AddToDlq, Outcomes, TypeOK
  <2>7. CASE AckDlq(w)
    BY <2>0, <2>7, AcknowledgeType DEF AckDlq, TypeOK
  <2>8. CASE ReadNew(w)
    <3>1. worker' \in [Workers -> WorkerState]
      BY <2>0, <2>8, NewEntriesAreNew DEF ReadNew, TypeOK
    <3>2. cursor' \in 0..Len(log)
      BY <2>8, <1>0, DeliverType DEF ReadNew, TypeOK
    <3> QED
      BY <2>8, <3>1, <3>2, DeliverType DEF ReadNew, TypeOK
  <2>9. CASE ReadNothing(w)
    BY <2>0, <2>9, CycleType DEF ReadNothing, TypeOK
  <2>10. ASSUME NEW m \in s.batch, Process(w, m) PROVE TypeOK'
    <3>1. worker' \in [Workers -> WorkerState]
      <4>1. m \in Msgs
        BY <2>0
      <4>2. CASE worker' = [worker EXCEPT ![w].batch = @ \ {m}]
        BY <2>0, <4>2 DEF TypeOK
      <4>3. ASSUME NEW branch \in {"zadd", "insert"},
                   worker' = [worker EXCEPT ![w].batch = @ \ {m},
                                ![w].cur = m, ![w].pc = branch]
            PROVE  worker' \in [Workers -> WorkerState]
        BY <2>0, <4>1, <4>3 DEF TypeOK
      <4> QED
        BY <2>10, <4>2, <4>3 DEF Process
    <3>2. faults' \in 0..MaxFaults
      BY <2>10, FaultType DEF Process, TypeOK
    <3>3. attempts' \in [Msgs -> Nat]
      BY <2>10 DEF Process, TypeOK
    <3> QED
      BY <2>10, <3>1, <3>2, <3>3 DEF Process, TypeOK
  <2>11. CASE Authorize(w)
    BY <2>0, <2>11, RecordType DEF Authorize, Outcomes, TypeOK
  <2>12. CASE Reject(w)
    BY <2>0, <2>12, RecordType, FaultType DEF Reject, Outcomes, TypeOK
  <2>13. CASE Ack(w)
    BY <2>0, <2>13, AcknowledgeType DEF Ack, TypeOK
  <2>14. CASE EndBatch(w)
    BY <2>0, <2>14, CycleType DEF EndBatch, TypeOK
  <2> QED
    BY <1>3, <2>1, <2>2, <2>3, <2>4, <2>5, <2>6, <2>7, <2>8, <2>9, <2>10,
       <2>11, <2>12, <2>13, <2>14 DEF WorkerStep
<1>4. ASSUME NEW w \in Workers, WorkerFault(w) PROVE TypeOK'
  <2>0. worker[w] \in WorkerState
    BY DEF TypeOK
  <2> USE FaultType DEF Phases, WorkerState
  <2>1. CASE Crash(w)
    BY <2>0, <2>1, Sizes DEF Crash, Down, TypeOK
  <2>2. CASE ReclaimCallFails(w)
    BY <2>0, <2>2 DEF ReclaimCallFails, TypeOK
  <2>3. CASE MessageCallFails(w)
    BY <2>0, <2>3 DEF MessageCallFails, TypeOK
  <2>4. CASE ReadFails(w)
    <3>1. worker' \in [Workers -> WorkerState] /\ faults' \in 0..MaxFaults
      BY <2>0, <2>4 DEF ReadFails, TypeOK
    <3>2. CASE Deliver(NewEntries)
      <4>1. cursor' \in 0..Len(log)
        BY <3>2, <1>0, DeliverType DEF TypeOK
      <4> QED
        BY <2>4, <3>1, <3>2, <4>1, DeliverType DEF ReadFails, TypeOK
    <3>3. CASE UNCHANGED <<streamVars, pelVars>>
      BY <2>4, <3>1, <3>3 DEF ReadFails, TypeOK
    <3> QED
      BY <2>4, <3>2, <3>3 DEF ReadFails
  <2> QED
    BY <1>4, <2>1, <2>2, <2>3, <2>4 DEF WorkerFault
<1>5. CASE UNCHANGED vars
  BY <1>5 DEF TypeOK
<1> QED
  BY <1>1, <1>2, <1>3, <1>4, <1>5 DEF Next

\* Stream, group, workers and outcomes keep their types.
THEOREM TypeCorrect == Spec => []TypeOK
BY TypeInit, TypeNext, PTL DEF Spec

-----------------------------------------------------------------------------
(* The inductive invariant behind the safety properties *)

Holding == {"dlq_add", "dlq_ack", "zadd", "insert", "ack"}

\* What a worker refers to was delivered.
InHands(w) ==
  /\ worker[w].pc \in Holding => worker[w].cur \in 1..cursor
  /\ worker[w].batch \subseteq 1..cursor
  /\ \A e \in worker[w].scan : e.id \in 1..cursor

\* A worker about to send XACK has written the outcome.
WrittenBeforeAck(w) ==
  /\ worker[w].pc = "ack" => \E o \in Outcomes : Wrote(worker[w].cur, o)
  /\ worker[w].pc = "dlq_ack" => Wrote(worker[w].cur, "dead")

\* Delivery counts only grow after the snapshot: a retry test it passed holds.
ClaimsCounted(w) ==
  /\ \A e \in worker[w].scan : e.count <= deliveries[e.id]
  /\ worker[w].pc \in {"dlq_add", "dlq_ack"} =>
       deliveries[worker[w].cur] > MaxRetries

Careful(w) == InHands(w) /\ WrittenBeforeAck(w) /\ ClaimsCounted(w)

AckInv ==
  /\ \A m \in Msgs : m > cursor => deliveries[m] = 0
  /\ \A w \in Workers : Careful(w)
  /\ NoSilentLoss
  /\ DeadOnlyAfterRetries

-----------------------------------------------------------------------------
(* What no step takes back *)

LEMMA DeliverMonotone ==
  ASSUME TypeOK, AckInv, Deliver(NewEntries), UNCHANGED outcomes
  PROVE  /\ cursor <= cursor' /\ trimmed' = trimmed
         /\ \A m \in Msgs : deliveries[m] <= deliveries'[m]
         /\ \A m \in Msgs : m > cursor' => deliveries'[m] = 0
         /\ NoSilentLoss'
<1>1. Len(log) \in Nat /\ cursor \in Nat /\ trimmed \in Nat
  BY DEF TypeOK
<1>2. cursor' \in cursor..Len(log) /\ \A m \in NewEntries : m <= cursor'
  BY <1>1, NewEntriesAreNew DEF TypeOK, Deliver
<1>3. \A m \in Msgs : deliveries'[m] = IF m \in NewEntries THEN 1 ELSE deliveries[m]
  BY DEF Deliver
<1>4. ASSUME NEW m \in Msgs
      PROVE  /\ deliveries[m] <= deliveries'[m]
             /\ m > cursor' => deliveries'[m] = 0
  <2>1. deliveries[m] \in Nat /\ m \in Nat
    BY Sizes DEF TypeOK, Msgs
  <2>2. CASE m \in NewEntries
    BY <1>1, <1>2, <1>3, <2>1, <2>2, NewEntriesAreNew DEF AckInv
  <2>3. CASE m \notin NewEntries
    BY <1>1, <1>2, <1>3, <2>1, <2>3 DEF AckInv
  <2> QED
    BY <2>2, <2>3
<1>5. ASSUME NEW m \in 1..cursor', m \notin NewEntries, m > trimmed
      PROVE  m <= cursor
  <2>1. m \in Nat /\ m <= Len(log)
    BY <1>1, <1>2
  <2>2. CASE NewEntries = {}
    BY <1>5, <2>2 DEF Deliver
  <2>3. CASE NewEntries # {}
    <3>1. cursor' \in NewEntries
      BY <2>3 DEF Deliver
    <3> QED
      BY <1>1, <1>5, <2>1, <3>1, Sizes DEF NewEntries
  <2> QED
    BY <2>2, <2>3
<1>6. NoSilentLoss'
  BY <1>1, <1>2, <1>5 DEF AckInv, NoSilentLoss, Deliver, Wrote
<1> QED
  BY <1>1, <1>2, <1>4, <1>6 DEF Deliver

LEMMA AcknowledgeMonotone ==
  ASSUME TypeOK, AckInv, NEW m \in Msgs, Acknowledge(m), UNCHANGED streamVars,
         UNCHANGED outcomes,
         m <= trimmed \/ \E o \in Outcomes : Wrote(m, o)
  PROVE  NoSilentLoss'
BY DEF AckInv, NoSilentLoss, Acknowledge, Wrote, streamVars

LEMMA XClaimMonotone ==
  ASSUME TypeOK, AckInv, NEW m \in Msgs, XClaim(m), UNCHANGED streamVars,
         UNCHANGED outcomes
  PROVE  /\ \A n \in Msgs : deliveries[n] <= deliveries'[n]
         /\ Claimable(m) => deliveries'[m] > deliveries[m]
                            \/ deliveries'[m] > MaxRetries
         /\ \A n \in Msgs : n > cursor => deliveries'[n] = 0
         /\ NoSilentLoss'
<1>0. /\ \A n \in Msgs : deliveries[n] \in Nat
      /\ m \in Nat /\ trimmed \in Nat /\ cursor \in Nat
  BY Sizes DEF TypeOK, Msgs
<1>1. CASE m <= trimmed /\ Acknowledge(m)
  <2>1. NoSilentLoss'
    BY <1>1, AcknowledgeMonotone
  <2>2. UNCHANGED deliveries /\ ~Claimable(m)
    BY <1>0, <1>1 DEF Claimable, Acknowledge
  <2> QED
    BY <1>0, <2>1, <2>2 DEF AckInv
<1>2. CASE m > trimmed /\ m \notin stale /\ UNCHANGED pelVars
  BY <1>0, <1>2 DEF Claimable, AckInv, NoSilentLoss, Wrote, pelVars, streamVars
<1>3. CASE /\ Claimable(m)
           /\ deliveries' = [deliveries EXCEPT ![m] =
                               IF @ > MaxRetries THEN @ ELSE @ + 1]
           /\ UNCHANGED pel
  <2>1. m <= cursor
    BY <1>0, <1>3 DEF Claimable, TypeOK
  <2>2. /\ \A n \in Msgs : n # m => deliveries'[n] = deliveries[n]
        /\ deliveries'[m] = IF deliveries[m] > MaxRetries THEN deliveries[m]
                            ELSE deliveries[m] + 1
    BY <1>3 DEF TypeOK
  <2>3. NoSilentLoss'
    BY <1>3 DEF AckInv, NoSilentLoss, Wrote, streamVars
  <2> QED
    BY <1>0, <2>1, <2>2, <2>3, Sizes DEF AckInv
<1> QED
  BY <1>1, <1>2, <1>3 DEF XClaim

LEMMA RecordMonotone ==
  ASSUME TypeOK, NEW w \in Workers, worker[w].cur \in Msgs,
         NEW o \in Outcomes, Record(w, o)
  PROVE  /\ \A m \in Msgs, p \in Outcomes : outcomes[m][p] <= outcomes'[m][p]
         /\ outcomes'[worker[w].cur][o] = outcomes[worker[w].cur][o] + 1
         /\ \A m \in Msgs, p \in Outcomes :
              m # worker[w].cur \/ p # o => outcomes'[m][p] = outcomes[m][p]
<1> DEFINE c == worker[w].cur
<1>0. \A m \in Msgs : outcomes[m] \in [Outcomes -> Nat]
  BY DEF TypeOK
<1>1. outcomes' = [outcomes EXCEPT ![c] =
                     [outcomes[c] EXCEPT ![o] = outcomes[c][o] + 1]]
  BY DEF Record
<1>2. \A m \in Msgs : outcomes'[m] =
        IF m = c THEN [outcomes[c] EXCEPT ![o] = outcomes[c][o] + 1]
        ELSE outcomes[m]
  BY <1>1 DEF TypeOK
<1> QED
  BY <1>0, <1>2

-----------------------------------------------------------------------------
(* XACK follows the outcome, and dead letters follow the retries *)

\* A worker that takes no step stays careful when nothing is taken back.
LEMMA BystanderCareful ==
  ASSUME TypeOK, TypeOK', NEW w \in Workers, Careful(w), worker'[w] = worker[w],
         cursor <= cursor',
         \A m \in Msgs : deliveries[m] <= deliveries'[m],
         \A m \in Msgs, o \in Outcomes : outcomes[m][o] <= outcomes'[m][o]
  PROVE  Careful(w)'
<1>0. /\ cursor \in Nat /\ cursor' \in Nat
      /\ \A m \in Msgs : deliveries[m] \in Nat /\ deliveries'[m] \in Nat
      /\ \A m \in Msgs, o \in Outcomes :
           outcomes[m][o] \in Nat /\ outcomes'[m][o] \in Nat
      /\ 1..cursor \subseteq 1..cursor'
  BY Sizes DEF TypeOK
<1>1. InHands(w)'
  BY <1>0 DEF Careful, InHands
<1>2. WrittenBeforeAck(w)'
  <2>1. worker[w].pc \in {"ack", "dlq_ack"} => worker[w].cur \in Msgs
    BY PelInMsgs DEF Careful, InHands, Holding
  <2>2. "dead" \in Outcomes
    BY DEF Outcomes
  <2>3. ASSUME NEW o \in Outcomes, worker[w].cur \in Msgs,
               Wrote(worker[w].cur, o)
        PROVE  Wrote(worker[w].cur, o)'
    BY <1>0, <2>3 DEF Wrote
  <2> QED
    BY <2>1, <2>2, <2>3 DEF Careful, WrittenBeforeAck
<1>3. ClaimsCounted(w)'
  <2>1. \A e \in worker[w].scan : e.id \in Msgs /\ e.count \in Nat
    BY PelInMsgs, Sizes DEF Careful, InHands, TypeOK, WorkerState, ScanEntries
  <2>2. worker[w].pc \in {"dlq_add", "dlq_ack"} => worker[w].cur \in Msgs
    BY PelInMsgs DEF Careful, InHands, Holding
  <2> QED
    BY <1>0, <2>1, <2>2, Sizes DEF Careful, ClaimsCounted
<1> QED
  BY <1>1, <1>2, <1>3 DEF Careful

\* Dead letters stay justified by a step that writes none.
LEMMA DeadStaysJustified ==
  ASSUME TypeOK, TypeOK', DeadOnlyAfterRetries,
         \A m \in Msgs : deliveries[m] <= deliveries'[m],
         \A m \in Msgs : outcomes'[m]["dead"] = outcomes[m]["dead"]
  PROVE  DeadOnlyAfterRetries'
<1>1. \A m \in Msgs : deliveries[m] \in Nat /\ deliveries'[m] \in Nat
  BY Sizes DEF TypeOK
<1> QED
  BY <1>1, Sizes DEF DeadOnlyAfterRetries, Wrote

LEMMA AckInit == Init => AckInv
BY Sizes DEF Init, AckInv, Careful, InHands, WrittenBeforeAck, ClaimsCounted,
             Down, Holding, NoSilentLoss, DeadOnlyAfterRetries, Wrote, Outcomes

\* A step of one worker, or of none, that writes no outcome.
LEMMA QuietStep ==
  ASSUME TypeOK, TypeOK', AckInv, NEW w \in Workers,
         \A v \in Workers \ {w} : worker'[v] = worker[v],
         cursor <= cursor', UNCHANGED outcomes,
         \A m \in Msgs : deliveries[m] <= deliveries'[m],
         \A m \in Msgs : m > cursor' => deliveries'[m] = 0,
         NoSilentLoss',
         Careful(w)'
  PROVE  AckInv'
<1>1. \A m \in Msgs, o \in Outcomes : outcomes[m][o] <= outcomes'[m][o]
  BY DEF TypeOK
<1>2. \A v \in Workers \ {w} : Careful(v)'
  BY <1>1, BystanderCareful DEF AckInv
<1>3. DeadOnlyAfterRetries'
  BY DeadStaysJustified DEF AckInv
<1> QED
  BY <1>2, <1>3 DEF AckInv

\* A local step: Redis is as it was, and the worker holds nothing new.
LEMMA LocalStep ==
  ASSUME TypeOK, TypeOK', AckInv, NEW w \in Workers,
         \A v \in Workers \ {w} : worker'[v] = worker[v],
         UNCHANGED <<streamVars, pelVars, outcomes>>,
         Careful(w)'
  PROVE  AckInv'
<1>1. NoSilentLoss'
  BY DEF AckInv, NoSilentLoss, Wrote, streamVars, pelVars
<1>2. cursor <= cursor' /\ \A m \in Msgs : deliveries[m] <= deliveries'[m]
  BY Sizes DEF TypeOK, streamVars, pelVars
<1>3. \A m \in Msgs : m > cursor' => deliveries'[m] = 0
  BY DEF AckInv, streamVars, pelVars
<1>4. UNCHANGED outcomes
  OBVIOUS
<1> QED
  BY <1>1, <1>2, <1>3, <1>4, QuietStep

\* A step that writes outcome o of the signal in hand and nothing else.
LEMMA RecordStep ==
  ASSUME TypeOK, TypeOK', AckInv, NEW w \in Workers, NEW o \in Outcomes,
         worker[w].cur \in Msgs, Record(w, o),
         \A v \in Workers \ {w} : worker'[v] = worker[v],
         UNCHANGED <<streamVars, pelVars>>,
         o = "dead" => deliveries[worker[w].cur] > MaxRetries,
         Careful(w)'
  PROVE  AckInv'
<1>0. /\ \A m \in Msgs, p \in Outcomes : outcomes[m][p] \in Nat
      /\ \A m \in Msgs : deliveries[m] \in Nat
      /\ "dead" \in Outcomes
  <2>1. \A m \in Msgs, p \in Outcomes : outcomes[m][p] \in Nat
    BY DEF TypeOK
  <2>2. \A m \in Msgs : deliveries[m] \in Nat
    BY Sizes DEF TypeOK
  <2> QED
    BY <2>1, <2>2 DEF Outcomes
<1>1. /\ \A m \in Msgs, p \in Outcomes : outcomes[m][p] <= outcomes'[m][p]
      /\ \A m \in Msgs, p \in Outcomes :
           m # worker[w].cur \/ p # o => outcomes'[m][p] = outcomes[m][p]
  BY RecordMonotone
<1>2. \A v \in Workers \ {w} : Careful(v)'
  <2>1. cursor <= cursor' /\ \A m \in Msgs : deliveries[m] <= deliveries'[m]
    BY <1>0 DEF streamVars, pelVars, TypeOK
  <2> QED
    BY <1>1, <2>1, BystanderCareful DEF AckInv
<1>3. NoSilentLoss'
  <2>1. \A m \in Msgs, p \in Outcomes : Wrote(m, p) => Wrote(m, p)'
    BY <1>0, <1>1 DEF Wrote, TypeOK
  <2> QED
    BY <2>1, PelInMsgs DEF AckInv, NoSilentLoss, streamVars, pelVars
<1>4. DeadOnlyAfterRetries'
  BY <1>0, <1>1 DEF AckInv, DeadOnlyAfterRetries, Wrote, pelVars
<1>5. \A m \in Msgs : m > cursor' => deliveries'[m] = 0
  BY DEF AckInv, streamVars, pelVars
<1> QED
  BY <1>2, <1>3, <1>4, <1>5 DEF AckInv

LEMMA RecordedIsWritten ==
  ASSUME TypeOK, NEW w \in Workers, worker[w].cur \in Msgs,
         NEW o \in Outcomes, Record(w, o)
  PROVE  outcomes'[worker[w].cur][o] > 0
<1>1. outcomes[worker[w].cur][o] \in Nat
  BY DEF TypeOK
<1> QED
  BY <1>1, RecordMonotone

LEMMA AckNext == TypeOK /\ TypeOK' /\ AckInv /\ [Next]_vars => AckInv'
<1> SUFFICES ASSUME TypeOK, TypeOK', AckInv, [Next]_vars PROVE AckInv'
  OBVIOUS
<1> USE DEF vars, historyVars
<1>0. /\ cursor \in Nat /\ 1..cursor \subseteq Msgs
      /\ \A m \in Msgs : deliveries[m] \in Nat
  <2>1. cursor \in Nat /\ 1..cursor \subseteq Msgs
    BY PelInMsgs DEF TypeOK
  <2>2. \A m \in Msgs : deliveries[m] \in Nat
    BY Sizes DEF TypeOK
  <2> QED
    BY <2>1, <2>2
<1>1. ASSUME NEW k \in Kinds, Publish(k) PROVE AckInv'
  <2>1. NoSilentLoss'
    <3>1. trimmed <= trimmed' /\ UNCHANGED <<cursor, pel, outcomes>>
      BY <1>1 DEF Publish, pelVars, TypeOK
    <3> QED
      BY <1>0, <3>1 DEF AckInv, NoSilentLoss, Wrote, TypeOK
  <2>2. UNCHANGED <<cursor, pelVars, worker, outcomes>>
    BY <1>1 DEF Publish
  <2> QED
    BY <2>1, <2>2 DEF AckInv, Careful, InHands, WrittenBeforeAck, ClaimsCounted,
                     DeadOnlyAfterRetries, Wrote, pelVars
<1>2. ASSUME NEW m \in Msgs, IdlePasses(m) PROVE AckInv'
  <2>1. UNCHANGED <<streamVars, pel, deliveries, worker, outcomes>>
    BY <1>2 DEF IdlePasses
  <2>2. NoSilentLoss' /\ DeadOnlyAfterRetries'
    BY <2>1 DEF AckInv, NoSilentLoss, DeadOnlyAfterRetries, Wrote, streamVars
  <2>3. \A w \in Workers : Careful(w)'
    BY <2>1 DEF AckInv, Careful, InHands, WrittenBeforeAck, ClaimsCounted, Wrote,
                streamVars
  <2> QED
    BY <2>1, <2>2, <2>3 DEF AckInv, streamVars
<1>3. ASSUME NEW w \in Workers, WorkerStep(w) PROVE AckInv'
  <2> DEFINE s == worker[w]
  <2>0. s \in WorkerState /\ Careful(w)
    BY DEF TypeOK, AckInv
  <2> USE DEF WorkerState, Holding
  <2>1. CASE Start(w)
    <3>1. Careful(w)'
      BY <2>0, <2>1 DEF Start, TypeOK, Careful, InHands, WrittenBeforeAck,
                        ClaimsCounted, Wrote, streamVars, pelVars
    <3> QED
      BY <2>1, <3>1, LocalStep DEF Start, TypeOK
  <2>2. CASE BeginReclaim(w)
    <3>1. Careful(w)'
      <4> DEFINE window == {m \in pel :
                              Cardinality({n \in pel : n <= m}) <= ReclaimWindow}
                 S == {[id |-> m, count |-> deliveries[m]] : m \in window \cap stale}
      <4>3. window \cap stale \subseteq 1..cursor
        BY DEF TypeOK
      <4> HIDE DEF window
      <4>1. \A e \in S : e.id \in 1..cursor /\ e.count <= deliveries[e.id]
        BY <1>0, <4>3
      <4>2. worker' = [worker EXCEPT ![w].pc = "reclaim", ![w].scan = S]
        BY <2>2 DEF BeginReclaim, window
      <4> HIDE DEF S
      <4>4. worker'[w] = [s EXCEPT !.pc = "reclaim", !.scan = S]
            /\ UNCHANGED <<cursor, deliveries>>
        BY <2>2, <4>2 DEF BeginReclaim, TypeOK, streamVars, pelVars
      <4> QED
        BY <2>0, <4>1, <4>4 DEF Careful, InHands, WrittenBeforeAck, ClaimsCounted
    <3> QED
      BY <2>2, <3>1, LocalStep DEF BeginReclaim, TypeOK
  <2>3. CASE EndReclaim(w)
    <3>1. Careful(w)'
      BY <2>0, <2>3 DEF EndReclaim, TypeOK, Careful, InHands, WrittenBeforeAck,
                        ClaimsCounted, Wrote, streamVars, pelVars
    <3> QED
      BY <2>3, <3>1, LocalStep DEF EndReclaim, TypeOK
  <2>4. ASSUME NEW e \in s.scan, ReclaimForRetry(w, e) PROVE AckInv'
    <3>1. e.id \in Msgs
      BY <2>0 DEF ScanEntries
    <3>2. /\ \A n \in Msgs : deliveries[n] <= deliveries'[n]
          /\ \A n \in Msgs : n > cursor => deliveries'[n] = 0
          /\ NoSilentLoss'
      BY <2>4, <3>1, XClaimMonotone DEF ReclaimForRetry
    <3>3. worker' = [worker EXCEPT ![w].scan = @ \ {e}]
      BY <2>4 DEF ReclaimForRetry
    <3>4. UNCHANGED <<cursor, outcomes>>
      BY <2>4 DEF ReclaimForRetry, streamVars
    <3>5. Careful(w)'
      <4>1. \A m \in Msgs : deliveries'[m] \in Nat
        BY Sizes DEF TypeOK
      <4>7. \A f \in s.scan : f.id \in Msgs /\ f.count \in Nat
        BY <2>0, Sizes DEF ScanEntries
      <4>2. worker'[w] = [s EXCEPT !.scan = @ \ {e}]
        BY <3>3 DEF TypeOK
      <4>3. s.pc # "dlq_add" /\ s.pc # "dlq_ack" /\ s.pc # "ack"
        BY <2>4 DEF ReclaimForRetry
      <4>4. InHands(w)'
        BY <2>0, <3>4, <4>2 DEF Careful, InHands
      <4>5. WrittenBeforeAck(w)'
        BY <2>0, <4>2, <4>3 DEF WrittenBeforeAck
      <4>6. ClaimsCounted(w)'
        BY <1>0, <2>0, <3>2, <4>1, <4>2, <4>3, <4>7
           DEF Careful, ClaimsCounted
      <4> QED
        BY <4>4, <4>5, <4>6 DEF Careful
    <3>6. \A v \in Workers \ {w} : worker'[v] = worker[v]
      BY <3>3 DEF TypeOK
    <3>7. cursor' = cursor /\ outcomes' = outcomes
      BY <3>4
    <3>8. cursor <= cursor' /\ \A n \in Msgs : n > cursor' => deliveries'[n] = 0
      BY <1>0, <3>2, <3>7
    <3> QED
      BY <3>2, <3>5, <3>6, <3>7, <3>8, QuietStep
  <2>5. ASSUME NEW e \in s.scan, ReclaimForDlq(w, e) PROVE AckInv'
    <3>1. e.id \in Msgs /\ e.id \in 1..cursor /\ deliveries[e.id] >= MaxRetries
      <4>1. e.id \in Msgs /\ e.id \in 1..cursor /\ e.count <= deliveries[e.id]
        BY <2>0 DEF ScanEntries, Careful, InHands, ClaimsCounted
      <4>2. e.count \in Nat /\ deliveries[e.id] \in Nat /\ e.count >= MaxRetries
        BY <1>0, <2>0, <2>5, <4>1, Sizes DEF ScanEntries, ReclaimForDlq, RetriesSpent
      <4> QED
        BY <4>1, <4>2, Sizes
    <3>2. /\ \A n \in Msgs : deliveries[n] <= deliveries'[n]
          /\ Claimable(e.id) => deliveries'[e.id] > deliveries[e.id]
                                \/ deliveries'[e.id] > MaxRetries
          /\ \A n \in Msgs : n > cursor => deliveries'[n] = 0
          /\ NoSilentLoss'
      BY <2>5, <3>1, XClaimMonotone DEF ReclaimForDlq
    <3>3. UNCHANGED <<cursor, outcomes>>
      BY <2>5 DEF ReclaimForDlq, streamVars
    <3>4. \A m \in Msgs : deliveries'[m] \in Nat
      BY Sizes DEF TypeOK
    <3>5. Claimable(e.id) => deliveries'[e.id] > MaxRetries
      BY <1>0, <3>1, <3>2, <3>4, Sizes
    <3>6. /\ worker'[w].pc \in {"reclaim", "read", "dlq_add"}
          /\ worker'[w].scan \subseteq s.scan /\ worker'[w].batch = s.batch
          /\ worker'[w].pc = "dlq_add" =>
               worker'[w].cur = e.id /\ Claimable(e.id)
          /\ \A v \in Workers \ {w} : worker'[v] = worker[v]
      <4>1. CASE worker' = [worker EXCEPT ![w].scan = @ \ {e}]
        BY <2>0, <2>5, <4>1 DEF TypeOK, ReclaimForDlq
      <4>2. CASE worker' = [worker EXCEPT ![w].scan = {}, ![w].pc = "read"]
        BY <2>0, <4>2 DEF TypeOK
      <4>3. CASE Claimable(e.id) /\
                 worker' = [worker EXCEPT ![w].scan = @ \ {e},
                              ![w].pc = "dlq_add", ![w].cur = e.id]
        BY <2>0, <4>3 DEF TypeOK
      <4> QED
        BY <2>5, <4>1, <4>2, <4>3 DEF ReclaimForDlq
    <3>7. Careful(w)'
      <4>1. InHands(w)'
        BY <2>0, <3>1, <3>3, <3>6 DEF Careful, InHands
      <4>2. WrittenBeforeAck(w)'
        BY <3>6 DEF WrittenBeforeAck
      <4>3. \A f \in worker'[w].scan :
              f.id \in Msgs /\ f.count \in Nat /\ f.count <= deliveries[f.id]
        BY <1>0, <2>0, <3>6, Sizes DEF Careful, InHands, ClaimsCounted, ScanEntries
      <4>4. ClaimsCounted(w)'
        BY <1>0, <3>2, <3>4, <3>5, <3>6, <4>3, Sizes DEF ClaimsCounted
      <4> QED
        BY <4>1, <4>2, <4>4 DEF Careful
    <3> QED
      BY <1>0, <3>2, <3>3, <3>6, <3>7, QuietStep
  <2>6. CASE AddToDlq(w)
    <3>1. s.cur \in Msgs /\ s.cur \in 1..cursor
          /\ deliveries[s.cur] > MaxRetries /\ "dead" \in Outcomes
      BY <1>0, <2>0, <2>6 DEF AddToDlq, Careful, InHands, ClaimsCounted, Outcomes
    <3>2. worker'[w] = [s EXCEPT !.pc = "dlq_ack"]
          /\ \A v \in Workers \ {w} : worker'[v] = worker[v]
      BY <2>6 DEF AddToDlq, TypeOK
    <3>3. UNCHANGED <<streamVars, pelVars>> /\ Record(w, "dead")
      BY <2>6 DEF AddToDlq
    <3>4. outcomes'[s.cur]["dead"] > 0
      <4>1. outcomes[s.cur]["dead"] \in Nat
        BY <3>1 DEF TypeOK
      <4> QED
        BY <3>1, <3>3, <4>1, RecordMonotone
    <3>5. Careful(w)'
      BY <2>0, <3>1, <3>2, <3>3, <3>4 DEF Careful, InHands, WrittenBeforeAck,
           ClaimsCounted, Wrote, streamVars, pelVars
    <3> QED
      BY <3>1, <3>2, <3>3, <3>5, RecordStep
  <2>7. CASE AckDlq(w)
    <3>1. s.cur \in Msgs /\ \E o \in Outcomes : Wrote(s.cur, o)
      BY <1>0, <2>0, <2>7 DEF AckDlq, Careful, InHands, WrittenBeforeAck, Outcomes
    <3>2. NoSilentLoss'
      BY <2>7, <3>1, AcknowledgeMonotone DEF AckDlq
    <3>3. UNCHANGED <<cursor, deliveries, outcomes>>
      BY <2>7 DEF AckDlq, Acknowledge, streamVars
    <3>4. worker'[w] = [s EXCEPT !.pc = "reclaim", !.cur = 0]
          /\ \A v \in Workers \ {w} : worker'[v] = worker[v]
      BY <2>0, <2>7 DEF AckDlq, TypeOK
    <3>5. Careful(w)'
      BY <2>0, <3>3, <3>4 DEF Careful, InHands, WrittenBeforeAck, ClaimsCounted
    <3> QED
      BY <1>0, <3>2, <3>3, <3>4, <3>5, QuietStep DEF AckInv
  <2>8. CASE ReadNew(w)
    <3>1. /\ cursor <= cursor'
          /\ \A m \in Msgs : deliveries[m] <= deliveries'[m]
          /\ \A m \in Msgs : m > cursor' => deliveries'[m] = 0
          /\ NoSilentLoss'
      BY <2>8, DeliverMonotone DEF ReadNew
    <3>2. /\ cursor' \in Nat
          /\ \A m \in Msgs : deliveries'[m] \in Nat
          /\ NewEntries \subseteq 1..cursor'
      <4>1. cursor' \in Nat /\ NewEntries \subseteq pel'
        BY <2>8, DeliverType DEF ReadNew, Deliver, TypeOK
      <4>2. \A m \in Msgs : deliveries'[m] \in Nat
        BY Sizes DEF TypeOK
      <4> QED
        BY <4>1, <4>2 DEF TypeOK
    <3>3. worker'[w] = [s EXCEPT !.pc = "work", !.batch = NewEntries]
          /\ \A v \in Workers \ {w} : worker'[v] = worker[v]
      BY <2>0, <2>8 DEF ReadNew, TypeOK
    <3>4. Careful(w)'
      <4>1. InHands(w)'
        BY <1>0, <2>0, <3>1, <3>2, <3>3 DEF Careful, InHands
      <4>2. WrittenBeforeAck(w)'
        BY <2>0, <3>3 DEF WrittenBeforeAck
      <4>3. \A e \in s.scan : e.id \in Msgs /\ e.count \in Nat
        BY <2>0, Sizes DEF ScanEntries
      <4>4. ClaimsCounted(w)'
        BY <1>0, <2>0, <3>1, <3>2, <3>3, <4>3, Sizes DEF Careful, ClaimsCounted
      <4> QED
        BY <4>1, <4>2, <4>4 DEF Careful
    <3>5. UNCHANGED outcomes
      BY <2>8 DEF ReadNew
    <3> QED
      BY <3>1, <3>3, <3>4, <3>5, QuietStep
  <2>9. CASE ReadNothing(w)
    <3>1. Careful(w)'
      BY <2>0, <2>9 DEF ReadNothing, TypeOK, Careful, InHands, WrittenBeforeAck,
                        ClaimsCounted, streamVars, pelVars
    <3> QED
      BY <2>9, <3>1, LocalStep DEF ReadNothing, TypeOK
  <2>10. ASSUME NEW m \in s.batch, Process(w, m) PROVE AckInv'
    <3>1. m \in 1..cursor
      BY <2>0 DEF Careful, InHands
    <3>2. /\ worker'[w].pc \in {"work", "zadd", "insert"}
          /\ worker'[w].pc # "work" => worker'[w].cur = m
          /\ worker'[w].batch \subseteq s.batch /\ worker'[w].scan = s.scan
          /\ \A v \in Workers \ {w} : worker'[v] = worker[v]
      <4>1. CASE worker' = [worker EXCEPT ![w].batch = @ \ {m}]
        BY <2>0, <2>10, <4>1 DEF Process, TypeOK
      <4>2. ASSUME NEW branch \in {"zadd", "insert"},
                   worker' = [worker EXCEPT ![w].batch = @ \ {m},
                                ![w].cur = m, ![w].pc = branch]
            PROVE  TRUE
        BY <2>0, <4>2 DEF TypeOK
      <4> QED
        BY <2>10, <4>1, <4>2 DEF Process
    <3>3. UNCHANGED <<streamVars, pelVars, outcomes>>
      BY <2>10 DEF Process
    <3>4. Careful(w)'
      BY <2>0, <3>1, <3>2, <3>3 DEF Careful, InHands, WrittenBeforeAck,
           ClaimsCounted, streamVars, pelVars
    <3> QED
      BY <3>2, <3>3, <3>4, LocalStep
  <2>11. CASE Authorize(w)
    <3>1. s.cur \in 1..cursor /\ s.cur \in Msgs /\ "authorized" \in Outcomes
      BY <1>0, <2>0, <2>11 DEF Authorize, Careful, InHands, Outcomes
    <3>2. worker'[w] = [s EXCEPT !.pc = "ack"]
          /\ \A v \in Workers \ {w} : worker'[v] = worker[v]
      BY <2>11 DEF Authorize, TypeOK
    <3>3. UNCHANGED <<streamVars, pelVars>> /\ Record(w, "authorized")
      BY <2>11 DEF Authorize
    <3>4. Careful(w)'
      BY <2>0, <3>1, <3>2, <3>3, RecordedIsWritten DEF Careful, InHands,
           WrittenBeforeAck, ClaimsCounted, Wrote, streamVars, pelVars
    <3> QED
      BY <3>1, <3>2, <3>3, <3>4, RecordStep
  <2>12. CASE Reject(w)
    <3>1. PICK o \in {"rejected", "unlogged"} : Record(w, o)
      BY <2>12 DEF Reject
    <3>2. s.cur \in 1..cursor /\ s.cur \in Msgs /\ o \in Outcomes /\ o # "dead"
      BY <1>0, <2>0, <2>12 DEF Reject, Careful, InHands, Outcomes
    <3>3. worker'[w] = [s EXCEPT !.pc = "ack"]
          /\ \A v \in Workers \ {w} : worker'[v] = worker[v]
      BY <2>12 DEF Reject, TypeOK
    <3>4. UNCHANGED <<streamVars, pelVars>>
      BY <2>12 DEF Reject
    <3>5. Careful(w)'
      BY <2>0, <3>1, <3>2, <3>3, <3>4, RecordedIsWritten DEF Careful, InHands,
           WrittenBeforeAck, ClaimsCounted, Wrote, streamVars, pelVars
    <3> QED
      BY <3>1, <3>2, <3>3, <3>4, <3>5, RecordStep
  <2>13. CASE Ack(w)
    <3>1. s.cur \in Msgs /\ \E o \in Outcomes : Wrote(s.cur, o)
      BY <1>0, <2>0, <2>13 DEF Ack, Careful, InHands, WrittenBeforeAck
    <3>2. NoSilentLoss'
      BY <2>13, <3>1, AcknowledgeMonotone DEF Ack
    <3>3. UNCHANGED <<cursor, deliveries, outcomes>>
      BY <2>13 DEF Ack, Acknowledge, streamVars
    <3>4. worker'[w] = [s EXCEPT !.pc = "work", !.cur = 0]
          /\ \A v \in Workers \ {w} : worker'[v] = worker[v]
      BY <2>0, <2>13 DEF Ack, TypeOK
    <3>5. Careful(w)'
      BY <2>0, <3>3, <3>4 DEF Careful, InHands, WrittenBeforeAck, ClaimsCounted
    <3> QED
      BY <1>0, <3>2, <3>3, <3>4, <3>5, QuietStep DEF AckInv
  <2>14. CASE EndBatch(w)
    <3>1. Careful(w)'
      BY <2>0, <2>14 DEF EndBatch, TypeOK, Careful, InHands, WrittenBeforeAck,
                         ClaimsCounted, streamVars, pelVars
    <3> QED
      BY <2>14, <3>1, LocalStep DEF EndBatch, TypeOK
  <2> QED
    BY <1>3, <2>1, <2>2, <2>3, <2>4, <2>5, <2>6, <2>7, <2>8, <2>9, <2>10,
       <2>11, <2>12, <2>13, <2>14 DEF WorkerStep
<1>4. ASSUME NEW w \in Workers, WorkerFault(w) PROVE AckInv'
  <2> DEFINE s == worker[w]
  <2>0. s \in WorkerState /\ Careful(w)
    BY DEF TypeOK, AckInv
  <2> USE DEF WorkerState, Holding
  <2>1. CASE Crash(w)
    <3>1. Careful(w)'
      BY <2>1 DEF Crash, Down, TypeOK, Careful, InHands, WrittenBeforeAck,
                  ClaimsCounted
    <3> QED
      BY <2>1, <3>1, LocalStep DEF Crash, TypeOK
  <2>2. CASE ReclaimCallFails(w)
    <3>1. Careful(w)'
      BY <2>0, <2>2 DEF ReclaimCallFails, TypeOK, Careful, InHands,
                        WrittenBeforeAck, ClaimsCounted, streamVars, pelVars
    <3> QED
      BY <2>2, <3>1, LocalStep DEF ReclaimCallFails, TypeOK
  <2>3. CASE MessageCallFails(w)
    <3>1. Careful(w)'
      BY <2>0, <2>3 DEF MessageCallFails, TypeOK, Careful, InHands,
                        WrittenBeforeAck, ClaimsCounted, streamVars, pelVars
    <3> QED
      BY <2>3, <3>1, LocalStep DEF MessageCallFails, TypeOK
  <2>4. CASE ReadFails(w)
    <3>1. worker'[w] = [s EXCEPT !.pc = "poll"] /\ UNCHANGED outcomes
          /\ \A v \in Workers \ {w} : worker'[v] = worker[v]
      BY <2>4 DEF ReadFails, TypeOK
    <3>2. CASE UNCHANGED <<streamVars, pelVars>>
      <4>1. Careful(w)'
        BY <2>0, <3>1, <3>2 DEF Careful, InHands, WrittenBeforeAck,
                                ClaimsCounted, streamVars, pelVars
      <4> QED
        BY <3>1, <3>2, <4>1, LocalStep
    <3>3. CASE Deliver(NewEntries)
      <4>1. /\ cursor <= cursor'
            /\ \A m \in Msgs : deliveries[m] <= deliveries'[m]
            /\ \A m \in Msgs : m > cursor' => deliveries'[m] = 0
            /\ NoSilentLoss'
        BY <3>1, <3>3, DeliverMonotone
      <4>2. /\ cursor' \in Nat
            /\ \A m \in Msgs : deliveries'[m] \in Nat
            /\ \A e \in s.scan : e.id \in Msgs /\ e.count \in Nat
        <5>1. cursor' \in Nat
          BY <3>3, DeliverType DEF TypeOK
        <5>2. \A m \in Msgs : deliveries'[m] \in Nat
          BY Sizes DEF TypeOK
        <5> QED
          BY <2>0, <5>1, <5>2, Sizes DEF ScanEntries
      <4>3. InHands(w)'
        BY <1>0, <2>0, <3>1, <4>1, <4>2 DEF Careful, InHands
      <4>4. WrittenBeforeAck(w)'
        BY <2>0, <3>1 DEF WrittenBeforeAck
      <4>5. ClaimsCounted(w)'
        BY <1>0, <2>0, <3>1, <4>1, <4>2 DEF Careful, ClaimsCounted
      <4> QED
        BY <3>1, <4>1, <4>3, <4>4, <4>5, QuietStep DEF Careful
    <3> QED
      BY <2>4, <3>2, <3>3 DEF ReadFails
  <2> QED
    BY <1>4, <2>1, <2>2, <2>3, <2>4 DEF WorkerFault
<1>5. CASE UNCHANGED vars
  <2>1. UNCHANGED <<streamVars, pelVars, worker, outcomes>>
    BY <1>5
  <2>2. NoSilentLoss' /\ DeadOnlyAfterRetries'
    BY <2>1 DEF AckInv, NoSilentLoss, DeadOnlyAfterRetries, Wrote, streamVars,
                pelVars
  <2>3. \A w \in Workers : Careful(w)'
    BY <2>1 DEF AckInv, Careful, InHands, WrittenBeforeAck, ClaimsCounted, Wrote,
                streamVars, pelVars
  <2> QED
    BY <2>1, <2>2, <2>3 DEF AckInv, streamVars, pelVars
<1> QED
  BY <1>1, <1>2, <1>3, <1>4, <1>5 DEF Next

\* An XACK always follows the writing of the outcome, whoever acknowledges.
THEOREM AckSafety == Spec => []AckInv
<1>1. Spec => []TypeOK
  BY TypeCorrect
<1> QED
  BY <1>1, AckInit, AckNext, PTL DEF Spec

\* A delivered signal leaves the PEL only with its outcome written, or because
\* the stream trimmed it.
THEOREM NoSilentLossTheorem == Spec => []NoSilentLoss
<1>1. AckInv => NoSilentLoss
  BY DEF AckInv
<1> QED
  BY <1>1, AckSafety, PTL

\* No dead letter before MAX_RETRIES deliveries, however workers race.
THEOREM DeadOnlyAfterRetriesTheorem == Spec => []DeadOnlyAfterRetries
<1>1. AckInv => DeadOnlyAfterRetries
  BY DEF AckInv
<1> QED
  BY <1>1, AckSafety, PTL

-----------------------------------------------------------------------------
(* No signal is decided twice *)

Deciding == {"zadd", "insert"}

\* What waits in a batch was never processed, what is being decided was
\* processed once and has no decision yet.
Pristine(w) ==
  /\ \A m \in worker[w].batch : attempts[m] = 0
  /\ worker[w].pc \in Deciding =>
       attempts[worker[w].cur] = 1 /\ Decisions(worker[w].cur) = 0

\* No signal is in two batches, or in the hands of two deciding workers.
Apart(v, w) ==
  /\ worker[v].batch \cap worker[w].batch = {}
  /\ worker[v].pc \in Deciding /\ worker[w].pc \in Deciding
       => worker[v].cur # worker[w].cur

DecisionInv ==
  /\ \A m \in Msgs : m > cursor => attempts[m] = 0
  /\ \A w \in Workers : Pristine(w)
  /\ \A v, w \in Workers : v # w => Apart(v, w)
  /\ SingleDecision

LEMMA DecisionsType ==
  TypeOK => \A m \in Msgs : Decisions(m) \in Nat /\ attempts[m] \in Nat
<1> SUFFICES ASSUME TypeOK, NEW m \in Msgs
             PROVE  Decisions(m) \in Nat /\ attempts[m] \in Nat
  OBVIOUS
<1>1. outcomes[m] \in [Outcomes -> Nat] /\ attempts[m] \in Nat
  BY DEF TypeOK
<1> QED
  BY <1>1 DEF Decisions, Outcomes

\* A worker that drops signals, or does not touch them, disturbs nothing.
LEMMA QuietDecision ==
  ASSUME TypeOK, TypeOK', DecisionInv, AckInv, NEW w \in Workers,
         \A v \in Workers \ {w} : worker'[v] = worker[v],
         cursor <= cursor', attempts' = attempts,
         \A m \in Msgs : Decisions(m)' = Decisions(m),
         worker'[w].batch \subseteq worker[w].batch,
         worker'[w].pc \in Deciding =>
           worker[w].pc \in Deciding /\ worker'[w].cur = worker[w].cur
  PROVE  DecisionInv'
<1>0. cursor \in Nat /\ cursor' \in Nat /\ \A m \in Msgs : m \in Nat
  BY Sizes DEF TypeOK, Msgs
<1>1. \A v \in Workers : worker[v].pc \in Deciding => worker[v].cur \in Msgs
  BY PelInMsgs DEF AckInv, Careful, InHands, Holding, Deciding
<1>2. \A v \in Workers : Pristine(v)'
  <2>1. \A v \in Workers \ {w} : Pristine(v)'
    BY <1>1 DEF DecisionInv, Pristine
  <2>2. Pristine(w)'
    BY <1>1 DEF DecisionInv, Pristine
  <2> QED
    BY <2>1, <2>2
<1>3. \A u, v \in Workers : u # v => Apart(u, v)'
  <2> SUFFICES ASSUME NEW u \in Workers, NEW v \in Workers, u # v
               PROVE  Apart(u, v)'
    OBVIOUS
  <2>1. Apart(u, v)
    BY DEF DecisionInv
  <2>2. \A x \in Workers :
          /\ worker'[x].batch \subseteq worker[x].batch
          /\ worker'[x].pc \in Deciding =>
               worker[x].pc \in Deciding /\ worker'[x].cur = worker[x].cur
    OBVIOUS
  <2> QED
    BY <2>1, <2>2 DEF Apart
<1>4. \A m \in Msgs : m > cursor' => attempts'[m] = 0
  BY <1>0 DEF DecisionInv
<1>5. SingleDecision'
  BY DEF DecisionInv, SingleDecision
<1> QED
  BY <1>2, <1>3, <1>4, <1>5 DEF DecisionInv

\* A decision is written for the signal in hand, and for no other.
LEMMA DecisionRecorded ==
  ASSUME TypeOK, NEW w \in Workers, NEW c \in Msgs, c = worker[w].cur,
         NEW o \in {"authorized", "rejected", "unlogged"}, Record(w, o)
  PROVE  /\ \A m \in Msgs : m # c => Decisions(m)' = Decisions(m)
         /\ Decisions(c)' = Decisions(c) + 1
         /\ \A m \in Msgs : outcomes'[m]["dead"] = outcomes[m]["dead"]
<1>1. o \in Outcomes /\ {"authorized", "rejected", "unlogged", "dead"} \subseteq Outcomes
  BY DEF Outcomes
<1>2. /\ outcomes'[c][o] = outcomes[c][o] + 1
      /\ \A m \in Msgs, p \in Outcomes :
           m # c \/ p # o => outcomes'[m][p] = outcomes[m][p]
  BY <1>1, RecordMonotone
<1>3. \A p \in Outcomes : outcomes[c][p] \in Nat
  BY DEF TypeOK
<1>4. /\ \A m \in Msgs : m # c => Decisions(m)' = Decisions(m)
      /\ \A m \in Msgs : outcomes'[m]["dead"] = outcomes[m]["dead"]
  BY <1>1, <1>2 DEF Decisions
<1>5. Decisions(c)' = Decisions(c) + 1
  <2>0. /\ outcomes[c]["authorized"] \in Nat /\ outcomes[c]["rejected"] \in Nat
        /\ outcomes[c]["unlogged"] \in Nat
    BY <1>1, <1>3
  <2>1. CASE o = "authorized"
    <3>1. /\ outcomes'[c]["authorized"] = outcomes[c]["authorized"] + 1
          /\ outcomes'[c]["rejected"] = outcomes[c]["rejected"]
          /\ outcomes'[c]["unlogged"] = outcomes[c]["unlogged"]
      BY <1>1, <1>2, <2>1
    <3> QED
      BY <2>0, <3>1 DEF Decisions
  <2>2. CASE o = "rejected"
    <3>1. /\ outcomes'[c]["authorized"] = outcomes[c]["authorized"]
          /\ outcomes'[c]["rejected"] = outcomes[c]["rejected"] + 1
          /\ outcomes'[c]["unlogged"] = outcomes[c]["unlogged"]
      BY <1>1, <1>2, <2>2
    <3> QED
      BY <2>0, <3>1 DEF Decisions
  <2>3. CASE o = "unlogged"
    <3>1. /\ outcomes'[c]["authorized"] = outcomes[c]["authorized"]
          /\ outcomes'[c]["rejected"] = outcomes[c]["rejected"]
          /\ outcomes'[c]["unlogged"] = outcomes[c]["unlogged"] + 1
      BY <1>1, <1>2, <2>3
    <3> QED
      BY <2>0, <3>1 DEF Decisions
  <2> QED
    BY <2>1, <2>2, <2>3
<1> QED
  BY <1>4, <1>5

\* A worker that decides the signal in its hands moves on to its XACK.
LEMMA DecidingStep ==
  ASSUME TypeOK, TypeOK', DecisionInv, AckInv, NEW w \in Workers,
         worker[w].pc \in Deciding,
         NEW o \in {"authorized", "rejected", "unlogged"}, Record(w, o),
         worker' = [worker EXCEPT ![w].pc = "ack"],
         cursor' = cursor, attempts' = attempts
  PROVE  DecisionInv'
<1>0. worker[w] \in WorkerState /\ \A m \in Msgs : Decisions(m) \in Nat
  BY DecisionsType DEF TypeOK
<1>1. \A v \in Workers : worker[v].pc \in Deciding => worker[v].cur \in Msgs
  BY PelInMsgs DEF AckInv, Careful, InHands, Holding, Deciding
<1>2. PICK c \in Msgs : c = worker[w].cur
  BY <1>1
<1>9. attempts[c] = 1 /\ Decisions(c) = 0
  BY <1>2 DEF DecisionInv, Pristine
<1>3. /\ \A m \in Msgs : m # c => Decisions(m)' = Decisions(m)
      /\ Decisions(c)' = Decisions(c) + 1
  BY <1>2, DecisionRecorded
<1>4. /\ worker'[w].pc = "ack" /\ worker'[w].batch = worker[w].batch
      /\ \A v \in Workers \ {w} : worker'[v] = worker[v]
  BY <1>0 DEF TypeOK, WorkerState
<1>5. \A v \in Workers : Pristine(v)'
  <2>1. ASSUME NEW v \in Workers \ {w} PROVE Pristine(v)'
    <3>1. worker[v].pc \in Deciding => worker[v].cur # c
      BY <1>2 DEF DecisionInv, Apart
    <3> QED
      BY <1>1, <1>3, <1>4, <3>1 DEF DecisionInv, Pristine
  <2>2. Pristine(w)'
    BY <1>4 DEF DecisionInv, Pristine, Deciding
  <2> QED
    BY <2>1, <2>2
<1>6. \A u, v \in Workers : u # v => Apart(u, v)'
  BY <1>4 DEF DecisionInv, Apart, Deciding
<1>7. SingleDecision'
  BY <1>0, <1>3, <1>9 DEF DecisionInv, SingleDecision
<1>8. \A m \in Msgs : m > cursor' => attempts'[m] = 0
  BY DEF DecisionInv
<1> QED
  BY <1>5, <1>6, <1>7, <1>8 DEF DecisionInv

\* A worker that takes a signal out of its batch is the first to process it.
LEMMA ProcessingStep ==
  ASSUME TypeOK, TypeOK', DecisionInv, AckInv, NEW w \in Workers,
         NEW m \in worker[w].batch, Process(w, m)
  PROVE  DecisionInv'
<1>0. worker[w] \in WorkerState /\ m \in Msgs /\ m \in 1..cursor
  BY PelInMsgs DEF TypeOK, WorkerState, AckInv, Careful, InHands
<1>1. attempts[m] = 0 /\ Decisions(m) = 0
  BY <1>0, DecisionsType DEF DecisionInv, Pristine, SingleDecision
<1>2. /\ attempts'[m] = 1
      /\ \A n \in Msgs : n # m => attempts'[n] = attempts[n]
      /\ \A n \in Msgs : Decisions(n)' = Decisions(n)
      /\ cursor' = cursor
  BY <1>0, <1>1 DEF Process, TypeOK, Decisions, streamVars
<1>3. /\ worker'[w].batch = worker[w].batch \ {m}
      /\ worker'[w].pc \in Deciding => worker'[w].cur = m
      /\ \A v \in Workers \ {w} : worker'[v] = worker[v]
  <2>1. CASE worker' = [worker EXCEPT ![w].batch = @ \ {m}]
    BY <1>0, <2>1 DEF Process, TypeOK, WorkerState, Deciding
  <2>2. ASSUME NEW branch \in {"zadd", "insert"},
               worker' = [worker EXCEPT ![w].batch = @ \ {m}, ![w].cur = m,
                                        ![w].pc = branch]
        PROVE  /\ worker'[w].batch = worker[w].batch \ {m}
               /\ worker'[w].cur = m
               /\ \A v \in Workers \ {w} : worker'[v] = worker[v]
    BY <1>0, <2>2 DEF TypeOK, WorkerState
  <2> QED
    BY <2>1, <2>2 DEF Process
<1>4. \A v \in Workers : worker[v].pc \in Deciding => worker[v].cur \in Msgs
  BY PelInMsgs DEF AckInv, Careful, InHands, Holding, Deciding
<1>5. \A v \in Workers : worker[v].batch \subseteq Msgs
  BY DEF TypeOK, WorkerState
<1>6. ASSUME NEW v \in Workers \ {w}
      PROVE  /\ Pristine(v)' /\ m \notin worker[v].batch
             /\ worker[v].pc \in Deciding => worker[v].cur # m
  <2>1. m \notin worker[v].batch
    BY DEF DecisionInv, Apart
  <2>2. worker[v].pc \in Deciding => worker[v].cur # m
    BY <1>1 DEF DecisionInv, Pristine
  <2> QED
    BY <1>2, <1>3, <1>4, <1>5, <2>1, <2>2 DEF DecisionInv, Pristine
<1>7. Pristine(w)'
  BY <1>0, <1>1, <1>2, <1>3, <1>5 DEF DecisionInv, Pristine
<1>8. \A u, v \in Workers : u # v => Apart(u, v)'
  BY <1>3, <1>6 DEF DecisionInv, Apart
<1>9. SingleDecision'
  BY <1>1, <1>2 DEF DecisionInv, SingleDecision
<1>10. \A n \in Msgs : n > cursor' => attempts'[n] = 0
  <2>1. cursor \in Nat /\ m <= cursor /\ \A n \in Msgs : n \in Nat
    BY <1>0, Sizes DEF TypeOK, Msgs
  <2> QED
    BY <1>2, <2>1 DEF DecisionInv
<1> QED
  BY <1>6, <1>7, <1>8, <1>9, <1>10 DEF DecisionInv

LEMMA DecisionInit == Init => DecisionInv
<1> SUFFICES ASSUME Init PROVE DecisionInv
  OBVIOUS
<1>1. \A m \in Msgs : attempts[m] = 0 /\ \A o \in Outcomes : outcomes[m][o] = 0
  BY DEF Init
<1>2. \A m \in Msgs : Decisions(m) = 0
  BY <1>1 DEF Decisions, Outcomes
<1>3. \A w \in Workers : worker[w].batch = {} /\ worker[w].pc = "down"
  BY DEF Init, Down
<1>4. SingleDecision
  BY <1>1, <1>2 DEF SingleDecision
<1> QED
  BY <1>1, <1>3, <1>4 DEF DecisionInv, Pristine, Apart, Deciding

\* A batch just read is ahead of everything any worker holds.
LEMMA ReadingStep ==
  ASSUME TypeOK, TypeOK', DecisionInv, AckInv, NEW w \in Workers, ReadNew(w)
  PROVE  DecisionInv'
<1>0. /\ cursor \in Nat /\ cursor' \in Nat /\ cursor <= cursor'
      /\ \A m \in Msgs : m \in Nat
  BY DeliverMonotone, Sizes DEF ReadNew, TypeOK, Msgs
<1>1. \A m \in NewEntries : m \in Msgs /\ m > cursor
  BY <1>0, NewEntriesAreNew DEF TypeOK
<1>2. /\ worker'[w].batch = NewEntries /\ worker'[w].pc \notin Deciding
      /\ \A v \in Workers \ {w} : worker'[v] = worker[v]
  <2>1. worker'[w] = [worker[w] EXCEPT !.pc = "work", !.batch = NewEntries]
        /\ \A v \in Workers \ {w} : worker'[v] = worker[v]
    BY DEF ReadNew, TypeOK
  <2> QED
    BY <2>1 DEF TypeOK, WorkerState, Deciding
<1>3. attempts' = attempts /\ \A m \in Msgs : Decisions(m)' = Decisions(m)
  BY DEF ReadNew, historyVars, Decisions
<1>4. \A v \in Workers : worker[v].batch \subseteq 1..cursor
                         /\ worker[v].batch \subseteq Msgs
  BY DEF AckInv, Careful, InHands, TypeOK, WorkerState
<1>5. \A v \in Workers : worker[v].pc \in Deciding => worker[v].cur \in Msgs
  BY PelInMsgs DEF AckInv, Careful, InHands, Holding, Deciding
<1>6. \A v \in Workers : Pristine(v)'
  <2>1. \A v \in Workers \ {w} : Pristine(v)'
    BY <1>2, <1>3, <1>5 DEF DecisionInv, Pristine
  <2>2. Pristine(w)'
    BY <1>1, <1>2, <1>3 DEF DecisionInv, Pristine
  <2> QED
    BY <2>1, <2>2
<1>7. \A v \in Workers : NewEntries \cap worker[v].batch = {}
  BY <1>0, <1>1, <1>4
<1>8. \A u, v \in Workers : u # v => Apart(u, v)'
  BY <1>2, <1>7 DEF DecisionInv, Apart
<1>9. SingleDecision'
  BY <1>3 DEF DecisionInv, SingleDecision
<1>10. \A m \in Msgs : m > cursor' => attempts'[m] = 0
  BY <1>0, <1>3 DEF DecisionInv
<1> QED
  BY <1>6, <1>8, <1>9, <1>10 DEF DecisionInv

LEMMA DecisionNext ==
  TypeOK /\ TypeOK' /\ AckInv /\ DecisionInv /\ [Next]_vars => DecisionInv'
<1> SUFFICES ASSUME TypeOK, TypeOK', AckInv, DecisionInv, [Next]_vars
             PROVE  DecisionInv'
  OBVIOUS
<1> USE DEF vars, historyVars
<1>0. cursor \in Nat
  BY DEF TypeOK
<1>1. ASSUME UNCHANGED <<cursor, worker, outcomes, attempts>> PROVE DecisionInv'
  BY <1>1 DEF DecisionInv, Pristine, Apart, SingleDecision, Decisions
<1>2. ASSUME NEW w \in Workers,
             \A v \in Workers \ {w} : worker'[v] = worker[v],
             worker'[w].batch \subseteq worker[w].batch,
             worker'[w].pc \in Deciding =>
               worker[w].pc \in Deciding /\ worker'[w].cur = worker[w].cur,
             cursor' = cursor, UNCHANGED <<outcomes, attempts>>
      PROVE  DecisionInv'
  <2>1. \A m \in Msgs : Decisions(m)' = Decisions(m)
    BY <1>2 DEF Decisions
  <2>2. attempts' = attempts /\ cursor <= cursor'
    BY <1>0, <1>2
  <2> QED
    BY <1>2, <2>1, <2>2, QuietDecision
<1>3. ASSUME NEW w \in Workers, WorkerStep(w) PROVE DecisionInv'
  <2> DEFINE s == worker[w]
  <2>0. s \in WorkerState
    BY DEF TypeOK
  <2> USE DEF WorkerState, Deciding
  <2>1. CASE Start(w)
    <3>1. worker'[w] = [s EXCEPT !.pc = "poll"]
          /\ \A v \in Workers \ {w} : worker'[v] = worker[v]
      BY <2>0, <2>1 DEF Start, TypeOK
    <3>2. UNCHANGED <<cursor, outcomes, attempts>>
      BY <2>1 DEF Start, streamVars
    <3> QED
      BY <1>2, <2>0, <3>1, <3>2
  <2>2. CASE BeginReclaim(w)
    <3>1. /\ worker'[w].batch = s.batch /\ worker'[w].pc = "reclaim"
          /\ \A v \in Workers \ {w} : worker'[v] = worker[v]
      <4>1. PICK S : worker' = [worker EXCEPT ![w].pc = "reclaim", ![w].scan = S]
        BY <2>2 DEF BeginReclaim
      <4> QED
        BY <2>0, <4>1 DEF TypeOK
    <3>2. UNCHANGED <<cursor, outcomes, attempts>>
      BY <2>2 DEF BeginReclaim, streamVars
    <3> QED
      BY <1>2, <2>0, <3>1, <3>2
  <2>3. CASE EndReclaim(w)
    <3>1. worker'[w] = [s EXCEPT !.pc = "read"]
          /\ \A v \in Workers \ {w} : worker'[v] = worker[v]
      BY <2>0, <2>3 DEF EndReclaim, TypeOK
    <3>2. UNCHANGED <<cursor, outcomes, attempts>>
      BY <2>3 DEF EndReclaim, streamVars
    <3> QED
      BY <1>2, <2>0, <3>1, <3>2
  <2>4. ASSUME NEW e \in s.scan, ReclaimForRetry(w, e) PROVE DecisionInv'
    <3>1. worker'[w] = [s EXCEPT !.scan = @ \ {e}]
          /\ \A v \in Workers \ {w} : worker'[v] = worker[v]
      BY <2>0, <2>4 DEF ReclaimForRetry, TypeOK
    <3>2. UNCHANGED <<cursor, outcomes, attempts>>
      BY <2>4 DEF ReclaimForRetry, streamVars
    <3> QED
      BY <1>2, <2>0, <3>1, <3>2
  <2>5. ASSUME NEW e \in s.scan, ReclaimForDlq(w, e) PROVE DecisionInv'
    <3>1. /\ worker'[w].pc \in {"reclaim", "read", "dlq_add"}
          /\ worker'[w].batch = s.batch
          /\ \A v \in Workers \ {w} : worker'[v] = worker[v]
      <4>1. CASE worker' = [worker EXCEPT ![w].scan = @ \ {e}]
        BY <2>0, <2>5, <4>1 DEF TypeOK, ReclaimForDlq
      <4>2. CASE worker' = [worker EXCEPT ![w].scan = {}, ![w].pc = "read"]
        BY <2>0, <4>2 DEF TypeOK
      <4>3. CASE worker' = [worker EXCEPT ![w].scan = @ \ {e},
                              ![w].pc = "dlq_add", ![w].cur = e.id]
        BY <2>0, <4>3 DEF TypeOK
      <4> QED
        BY <2>5, <4>1, <4>2, <4>3 DEF ReclaimForDlq
    <3>2. UNCHANGED <<cursor, outcomes, attempts>>
      BY <2>5 DEF ReclaimForDlq, streamVars
    <3> QED
      BY <1>2, <2>0, <3>1, <3>2
  <2>6. CASE AddToDlq(w)
    <3>1. s.cur \in Msgs /\ "dead" \in Outcomes
      BY PelInMsgs, <2>6 DEF AddToDlq, AckInv, Careful, InHands, Holding, Outcomes
    <3>2. worker'[w] = [s EXCEPT !.pc = "dlq_ack"]
          /\ \A v \in Workers \ {w} : worker'[v] = worker[v]
      BY <2>6 DEF AddToDlq, TypeOK
    <3>3. UNCHANGED <<cursor, attempts>> /\ Record(w, "dead")
      BY <2>6 DEF AddToDlq, streamVars
    <3>4. \A m \in Msgs : Decisions(m)' = Decisions(m)
      BY <3>1, <3>3, RecordMonotone DEF Decisions, Outcomes
    <3> QED
      BY <1>0, <2>0, <3>2, <3>3, <3>4, QuietDecision
  <2>7. CASE AckDlq(w)
    <3>1. worker'[w] = [s EXCEPT !.pc = "reclaim", !.cur = 0]
          /\ \A v \in Workers \ {w} : worker'[v] = worker[v]
      BY <2>0, <2>7 DEF AckDlq, TypeOK
    <3>2. UNCHANGED <<cursor, outcomes, attempts>>
      BY <2>7 DEF AckDlq, streamVars
    <3> QED
      BY <1>2, <2>0, <3>1, <3>2
  <2>8. CASE ReadNew(w)
    BY <2>8, ReadingStep
  <2>9. CASE ReadNothing(w)
    <3>1. worker'[w] = [s EXCEPT !.pc = "poll", !.cycle = NextCycle(w)]
          /\ \A v \in Workers \ {w} : worker'[v] = worker[v]
      BY <2>0, <2>9 DEF ReadNothing, TypeOK
    <3>2. UNCHANGED <<cursor, outcomes, attempts>>
      BY <2>9 DEF ReadNothing, streamVars
    <3> QED
      BY <1>2, <2>0, <3>1, <3>2
  <2>10. ASSUME NEW m \in s.batch, Process(w, m) PROVE DecisionInv'
    BY <2>10, ProcessingStep
  <2>11. CASE Authorize(w)
    BY <2>11, DecidingStep DEF Authorize, streamVars
  <2>12. CASE Reject(w)
    <3>1. PICK o \in {"rejected", "unlogged"} : Record(w, o)
      BY <2>12 DEF Reject
    <3> QED
      BY <2>12, <3>1, DecidingStep DEF Reject, streamVars
  <2>13. CASE Ack(w)
    <3>1. worker'[w] = [s EXCEPT !.pc = "work", !.cur = 0]
          /\ \A v \in Workers \ {w} : worker'[v] = worker[v]
      BY <2>0, <2>13 DEF Ack, TypeOK
    <3>2. UNCHANGED <<cursor, outcomes, attempts>>
      BY <2>13 DEF Ack, streamVars
    <3> QED
      BY <1>2, <2>0, <3>1, <3>2
  <2>14. CASE EndBatch(w)
    <3>1. worker'[w] = [s EXCEPT !.pc = "poll", !.cycle = NextCycle(w)]
          /\ \A v \in Workers \ {w} : worker'[v] = worker[v]
      BY <2>0, <2>14 DEF EndBatch, TypeOK
    <3>2. UNCHANGED <<cursor, outcomes, attempts>>
      BY <2>14 DEF EndBatch, streamVars
    <3> QED
      BY <1>2, <2>0, <3>1, <3>2
  <2> QED
    BY <1>3, <2>1, <2>2, <2>3, <2>4, <2>5, <2>6, <2>7, <2>8, <2>9, <2>10,
       <2>11, <2>12, <2>13, <2>14 DEF WorkerStep
<1>4. ASSUME NEW w \in Workers, WorkerFault(w) PROVE DecisionInv'
  <2> DEFINE s == worker[w]
  <2>0. s \in WorkerState
    BY DEF TypeOK
  <2> USE DEF WorkerState, Deciding
  <2>1. CASE Crash(w)
    <3>1. worker'[w] = Down /\ \A v \in Workers \ {w} : worker'[v] = worker[v]
      BY <2>1 DEF Crash, TypeOK
    <3>2. UNCHANGED <<cursor, outcomes, attempts>>
      BY <2>1 DEF Crash, streamVars
    <3> QED
      BY <1>2, <2>0, <3>1, <3>2 DEF Down
  <2>2. CASE ReclaimCallFails(w)
    <3>1. worker'[w] = [s EXCEPT !.pc = "read", !.cur = 0, !.scan = {}]
          /\ \A v \in Workers \ {w} : worker'[v] = worker[v]
      BY <2>0, <2>2 DEF ReclaimCallFails, TypeOK
    <3>2. UNCHANGED <<cursor, outcomes, attempts>>
      BY <2>2 DEF ReclaimCallFails, streamVars
    <3> QED
      BY <1>2, <2>0, <3>1, <3>2
  <2>3. CASE MessageCallFails(w)
    <3>1. worker'[w] = [s EXCEPT !.pc = "work", !.cur = 0]
          /\ \A v \in Workers \ {w} : worker'[v] = worker[v]
      BY <2>0, <2>3 DEF MessageCallFails, TypeOK
    <3>2. UNCHANGED <<cursor, outcomes, attempts>>
      BY <2>3 DEF MessageCallFails, streamVars
    <3> QED
      BY <1>2, <2>0, <3>1, <3>2
  <2>4. CASE ReadFails(w)
    <3>1. worker'[w] = [s EXCEPT !.pc = "poll"]
          /\ \A v \in Workers \ {w} : worker'[v] = worker[v]
      BY <2>4 DEF ReadFails, TypeOK
    <3>2. cursor <= cursor'
      <4>1. CASE Deliver(NewEntries)
        BY <2>4, <4>1, DeliverMonotone DEF ReadFails
      <4> QED
        BY <1>0, <2>4, <4>1 DEF ReadFails, streamVars
    <3>3. attempts' = attempts /\ \A m \in Msgs : Decisions(m)' = Decisions(m)
      BY <2>4 DEF ReadFails, Decisions
    <3> QED
      BY <2>0, <3>1, <3>2, <3>3, QuietDecision
  <2> QED
    BY <1>4, <2>1, <2>2, <2>3, <2>4 DEF WorkerFault
<1>5. ASSUME NEW k \in Kinds, Publish(k) PROVE DecisionInv'
  BY <1>1, <1>5 DEF Publish
<1>6. ASSUME NEW m \in Msgs, IdlePasses(m) PROVE DecisionInv'
  BY <1>1, <1>6 DEF IdlePasses, streamVars
<1>7. CASE UNCHANGED vars
  BY <1>1, <1>7 DEF streamVars
<1> QED
  BY <1>3, <1>4, <1>5, <1>6, <1>7 DEF Next

\* An undecided signal in a batch is in the hands of one worker only.
THEOREM DecisionSafety == Spec => []DecisionInv
<1>1. Spec => []TypeOK
  BY TypeCorrect
<1>2. Spec => []AckInv
  BY AckSafety
<1> QED
  BY <1>1, <1>2, DecisionInit, DecisionNext, PTL DEF Spec

\* No interleaving, crash, failed call or reclaim makes the worker decide a
\* signal twice.
THEOREM SingleDecisionTheorem == Spec => []SingleDecision
<1>1. DecisionInv => SingleDecision
  BY DEF DecisionInv
<1> QED
  BY <1>1, DecisionSafety, PTL

-----------------------------------------------------------------------------
(* The steps of a worker by what they do to it and to the pending entries *)

Moves(w, p, c, b) ==
  /\ worker'[w].pc = p /\ worker'[w].cur = c /\ worker'[w].batch = b
  /\ \A v \in Workers \ {w} : worker'[v] = worker[v]

\* Start, BeginReclaim, EndReclaim, ReadNothing, EndBatch.
Turns(w) ==
  /\ worker[w].pc \in {"down", "poll", "read", "reclaim", "work"}
  /\ worker[w].pc = "work" => worker[w].batch = {}
  /\ \E p \in {"poll", "reclaim", "read"} : Moves(w, p, worker[w].cur, worker[w].batch)
  /\ UNCHANGED <<pel, outcomes, faults>>

\* ReclaimForRetry, ReclaimForDlq.
Reclaims(w) ==
  /\ worker[w].pc = "reclaim"
  /\ \/ \E p \in {"reclaim", "read"} : Moves(w, p, worker[w].cur, worker[w].batch)
     \/ \E c \in pel' : Moves(w, "dlq_add", c, worker[w].batch)
  /\ pel' \subseteq pel
  /\ UNCHANGED <<outcomes, faults>>

\* ReadNew, ReadFails.
Reads(w) ==
  /\ worker[w].pc \in {"poll", "read"}
  /\ \/ pel' = pel \cup NewEntries /\ Moves(w, "work", worker[w].cur, NewEntries)
     \/ /\ pel' = pel \cup NewEntries \/ UNCHANGED pel
        /\ Moves(w, "poll", worker[w].cur, worker[w].batch)
  /\ faults' >= faults
  /\ UNCHANGED outcomes

\* Process.
Takes(w) ==
  /\ worker[w].pc = "work"
  /\ \E m \in worker[w].batch :
       \/ Moves(w, "work", worker[w].cur, worker[w].batch \ {m})
       \/ \E p \in {"zadd", "insert"} : Moves(w, p, m, worker[w].batch \ {m})
  /\ faults' >= faults
  /\ UNCHANGED <<pel, outcomes>>

\* AddToDlq, Authorize, Reject.
Writes(w) ==
  /\ \/ /\ worker[w].pc = "dlq_add" /\ Record(w, "dead")
        /\ Moves(w, "dlq_ack", worker[w].cur, worker[w].batch)
     \/ /\ worker[w].pc \in {"zadd", "insert"}
        /\ \E o \in {"authorized", "rejected", "unlogged"} : Record(w, o)
        /\ Moves(w, "ack", worker[w].cur, worker[w].batch)
  /\ faults' >= faults
  /\ UNCHANGED pel

\* AckDlq, Ack.
Acknowledges(w) ==
  /\ \/ worker[w].pc = "dlq_ack" /\ Moves(w, "reclaim", 0, worker[w].batch)
     \/ worker[w].pc = "ack" /\ Moves(w, "work", 0, worker[w].batch)
  /\ pel' = pel \ {worker[w].cur}
  /\ UNCHANGED <<outcomes, faults>>

\* Crash, ReclaimCallFails, MessageCallFails.
Fails(w) ==
  /\ \/ Moves(w, "down", 0, {})
     \/ /\ worker[w].pc \in {"poll", "reclaim", "dlq_add", "dlq_ack"}
        /\ Moves(w, "read", 0, worker[w].batch)
     \/ worker[w].pc \in {"zadd", "ack"} /\ Moves(w, "work", 0, worker[w].batch)
  /\ faults' = faults + 1
  /\ UNCHANGED <<pel, outcomes>>

LEMMA Shapes ==
  ASSUME TypeOK, AckInv, [Next]_vars
  PROVE  \/ UNCHANGED <<worker, pel, outcomes, faults>>
         \/ \E w \in Workers : \/ Turns(w) \/ Reclaims(w) \/ Reads(w) \/ Takes(w)
                               \/ Writes(w) \/ Acknowledges(w) \/ Fails(w)
<1> USE DEF vars, historyVars, pelVars, streamVars
<1>1. ASSUME NEW w \in Workers, WorkerStep(w)
      PROVE  \/ Turns(w) \/ Reclaims(w) \/ Reads(w) \/ Takes(w) \/ Writes(w) \/ Acknowledges(w)
  <2> DEFINE s == worker[w]
  <2>0. s \in WorkerState /\ worker \in [Workers -> WorkerState] /\ faults \in Nat
    BY DEF TypeOK
  <2>1. CASE Start(w)
    BY <2>0, <2>1 DEF Start, Turns, Moves, WorkerState
  <2>2. CASE BeginReclaim(w)
    <3>1. PICK S : worker' = [worker EXCEPT ![w].pc = "reclaim", ![w].scan = S]
      BY <2>2 DEF BeginReclaim
    <3>2. Moves(w, "reclaim", s.cur, s.batch)
      BY <2>0, <3>1 DEF Moves, WorkerState
    <3> QED
      BY <2>2, <3>2 DEF BeginReclaim, Turns
  <2>3. CASE EndReclaim(w)
    BY <2>0, <2>3 DEF EndReclaim, Turns, Moves, WorkerState
  <2>4. ASSUME NEW e \in s.scan, ReclaimForRetry(w, e) PROVE Reclaims(w)
    <3>1. Moves(w, "reclaim", s.cur, s.batch)
      BY <2>0, <2>4 DEF ReclaimForRetry, Moves, WorkerState
    <3>2. pel' \subseteq pel
      BY <2>4 DEF ReclaimForRetry, XClaim, Acknowledge
    <3> QED
      BY <2>4, <3>1, <3>2 DEF ReclaimForRetry, Reclaims
  <2>5. ASSUME NEW e \in s.scan, ReclaimForDlq(w, e) PROVE Reclaims(w)
    <3>1. pel' \subseteq pel
      BY <2>5 DEF ReclaimForDlq, XClaim, Acknowledge
    <3>2. Claimable(e.id) => e.id \in pel'
      <4>0. e.id \in Nat /\ trimmed \in Nat
        BY <2>0, Sizes DEF WorkerState, ScanEntries, Msgs, TypeOK
      <4>1. Claimable(e.id) => e.id \in pel /\ e.id > trimmed
        BY DEF Claimable, TypeOK
      <4>2. Claimable(e.id) => UNCHANGED pel
        BY <2>5, <4>0, <4>1 DEF ReclaimForDlq, XClaim
      <4> QED
        BY <4>1, <4>2
    <3>3. \/ \E p \in {"reclaim", "read"} : Moves(w, p, s.cur, s.batch)
          \/ \E c \in pel' : Moves(w, "dlq_add", c, s.batch)
      <4>1. CASE worker' = [worker EXCEPT ![w].scan = @ \ {e}]
        <5>1. Moves(w, "reclaim", s.cur, s.batch)
          BY <2>0, <2>5, <4>1 DEF ReclaimForDlq, Moves, WorkerState
        <5> QED
          BY <5>1
      <4>2. CASE worker' = [worker EXCEPT ![w].scan = {}, ![w].pc = "read"]
        <5>1. Moves(w, "read", s.cur, s.batch)
          BY <2>0, <4>2 DEF Moves, WorkerState
        <5> QED
          BY <5>1
      <4>3. CASE Claimable(e.id) /\
                 worker' = [worker EXCEPT ![w].scan = @ \ {e},
                              ![w].pc = "dlq_add", ![w].cur = e.id]
        <5>1. Moves(w, "dlq_add", e.id, s.batch)
          BY <2>0, <4>3 DEF Moves, WorkerState
        <5> QED
          BY <3>2, <4>3, <5>1
      <4> QED
        BY <2>5, <4>1, <4>2, <4>3 DEF ReclaimForDlq
    <3> QED
      BY <2>5, <3>1, <3>3 DEF ReclaimForDlq, Reclaims
  <2>6. CASE AddToDlq(w)
    <3>1. Moves(w, "dlq_ack", s.cur, s.batch)
      BY <2>0, <2>6 DEF AddToDlq, Moves, WorkerState
    <3> QED
      BY <2>0, <2>6, <3>1 DEF AddToDlq, Writes
  <2>7. CASE AckDlq(w)
    <3>1. Moves(w, "reclaim", 0, s.batch)
      BY <2>0, <2>7 DEF AckDlq, Moves, WorkerState
    <3> QED
      BY <2>7, <3>1 DEF AckDlq, Acknowledge, Acknowledges
  <2>8. CASE ReadNew(w)
    <3>1. Moves(w, "work", s.cur, NewEntries)
      BY <2>0, <2>8 DEF ReadNew, Moves, WorkerState
    <3> QED
      BY <2>0, <2>8, <3>1 DEF ReadNew, AboutToRead, Deliver, Reads
  <2>9. CASE ReadNothing(w)
    <3>1. Moves(w, "poll", s.cur, s.batch)
      BY <2>0, <2>9 DEF ReadNothing, Moves, WorkerState
    <3> QED
      BY <2>9, <3>1 DEF ReadNothing, AboutToRead, Turns
  <2>10. ASSUME NEW m \in s.batch, Process(w, m) PROVE Takes(w)
    <3>1. \/ Moves(w, "work", s.cur, s.batch \ {m})
          \/ \E p \in {"zadd", "insert"} : Moves(w, p, m, s.batch \ {m})
      <4>1. CASE worker' = [worker EXCEPT ![w].batch = @ \ {m}]
        BY <2>0, <2>10, <4>1 DEF Process, Moves, WorkerState
      <4>2. ASSUME NEW branch \in {"zadd", "insert"},
                   worker' = [worker EXCEPT ![w].batch = @ \ {m}, ![w].cur = m, ![w].pc = branch]
            PROVE  Moves(w, branch, m, s.batch \ {m})
        BY <2>0, <4>2 DEF Moves, WorkerState
      <4> QED
        BY <2>10, <4>1, <4>2 DEF Process
    <3>2. faults' >= faults
      BY <2>0, <2>10 DEF Process, Fault
    <3> QED
      BY <2>10, <3>1, <3>2 DEF Process, Takes
  <2>11. CASE Authorize(w)
    <3>1. Moves(w, "ack", s.cur, s.batch)
      BY <2>0, <2>11 DEF Authorize, Moves, WorkerState
    <3> QED
      BY <2>0, <2>11, <3>1 DEF Authorize, Writes
  <2>12. CASE Reject(w)
    <3>1. Moves(w, "ack", s.cur, s.batch)
      BY <2>0, <2>12 DEF Reject, Moves, WorkerState
    <3>2. faults' >= faults
      BY <2>0, <2>12 DEF Reject, Fault
    <3> QED
      BY <2>12, <3>1, <3>2 DEF Reject, Writes
  <2>13. CASE Ack(w)
    <3>1. Moves(w, "work", 0, s.batch)
      BY <2>0, <2>13 DEF Ack, Moves, WorkerState
    <3> QED
      BY <2>13, <3>1 DEF Ack, Acknowledge, Acknowledges
  <2>14. CASE EndBatch(w)
    <3>1. Moves(w, "poll", s.cur, s.batch)
      BY <2>0, <2>14 DEF EndBatch, Moves, WorkerState
    <3> QED
      BY <2>14, <3>1 DEF EndBatch, Turns
  <2> QED
    BY <1>1, <2>1, <2>2, <2>3, <2>4, <2>5, <2>6, <2>7, <2>8, <2>9, <2>10,
       <2>11, <2>12, <2>13, <2>14 DEF WorkerStep
<1>2. ASSUME NEW w \in Workers, WorkerFault(w) PROVE Fails(w) \/ Reads(w)
  <2> DEFINE s == worker[w]
  <2>0. s \in WorkerState /\ worker \in [Workers -> WorkerState] /\ faults \in Nat
    BY DEF TypeOK
  <2>1. CASE Crash(w)
    <3>1. Moves(w, "down", 0, {})
      BY <2>0, <2>1 DEF Crash, Moves, WorkerState, Down
    <3> QED
      BY <2>1, <3>1 DEF Crash, Fault, Fails
  <2>2. CASE ReclaimCallFails(w)
    <3>1. Moves(w, "read", 0, s.batch)
      BY <2>0, <2>2 DEF ReclaimCallFails, Moves, WorkerState
    <3> QED
      BY <2>2, <3>1 DEF ReclaimCallFails, Fault, Fails
  <2>3. CASE MessageCallFails(w)
    <3>1. Moves(w, "work", 0, s.batch)
      BY <2>0, <2>3 DEF MessageCallFails, Moves, WorkerState
    <3> QED
      BY <2>3, <3>1 DEF MessageCallFails, Fault, Fails
  <2>4. CASE ReadFails(w)
    <3>1. Moves(w, "poll", s.cur, s.batch)
      BY <2>0, <2>4 DEF ReadFails, Moves, WorkerState
    <3>2. pel' = pel \cup NewEntries \/ UNCHANGED pel
      BY <2>4 DEF ReadFails, Deliver
    <3>3. faults' >= faults
      BY <2>0, <2>4 DEF ReadFails, Fault
    <3> QED
      BY <2>4, <3>1, <3>2, <3>3 DEF ReadFails, AboutToRead, Reads
  <2> QED
    BY <1>2, <2>1, <2>2, <2>3, <2>4 DEF WorkerFault
<1>3. ASSUME NEW k \in Kinds, Publish(k) PROVE UNCHANGED <<worker, pel, outcomes, faults>>
  BY <1>3 DEF Publish
<1>4. ASSUME NEW m \in Msgs, IdlePasses(m) PROVE UNCHANGED <<worker, pel, outcomes, faults>>
  BY <1>4 DEF IdlePasses
<1>5. CASE UNCHANGED vars
  BY <1>5
<1> QED
  BY <1>1, <1>2, <1>3, <1>4, <1>5 DEF Next

LEMMA Counters ==
  ASSUME TypeOK
  PROVE  /\ faults \in Nat /\ cursor \in Nat /\ pel \subseteq Msgs
         /\ \A m \in Msgs : /\ outcomes[m]["dead"] \in Nat /\ outcomes[m]["authorized"] \in Nat
                            /\ outcomes[m]["rejected"] \in Nat /\ outcomes[m]["unlogged"] \in Nat
<1>1. \A m \in Msgs : outcomes[m] \in [Outcomes -> Nat]
  BY DEF TypeOK
<1>2. \A m \in Msgs : /\ outcomes[m]["dead"] \in Nat /\ outcomes[m]["authorized"] \in Nat
                     /\ outcomes[m]["rejected"] \in Nat /\ outcomes[m]["unlogged"] \in Nat
  BY <1>1 DEF Outcomes
<1>3. faults \in Nat /\ cursor \in Nat
  BY Sizes DEF TypeOK
<1> QED
  BY <1>2, <1>3, PelInMsgs

\* Nothing was written for a signal that was not delivered yet.
LEMMA UntouchedIsBlank ==
  ASSUME TypeOK, AckInv, NEW m \in NewEntries
  PROVE  m \in Msgs /\ m \notin pel /\ outcomes[m]["dead"] = 0
<1>1. m \in Msgs /\ m > cursor /\ cursor \in Nat /\ m \in Nat
  BY NewEntriesAreNew DEF TypeOK
<1>2. m \notin pel
  BY <1>1 DEF TypeOK
<1>3. deliveries[m] = 0
  BY <1>1 DEF AckInv
<1>4. ~(outcomes[m]["dead"] > 0)
  BY <1>1, <1>3, Sizes DEF AckInv, DeadOnlyAfterRetries, Wrote
<1> QED
  BY <1>1, <1>2, <1>4, Counters

-----------------------------------------------------------------------------
(* How often a dead letter is written *)

Adding(m) == {w \in Workers : worker[w].pc = "dlq_add" /\ worker[w].cur = m}
Acking(m) == {w \in Workers : worker[w].pc = "dlq_ack" /\ worker[w].cur = m}

\* While a signal is pending, each of its dead letters is one whose writer is
\* about to acknowledge it, or was prevented by a fault.  Once it is not, no
\* worker but those that claimed it before can add one.
DeadCharged(m) ==
  IF m \in pel THEN outcomes[m]["dead"] <= Cardinality(Acking(m)) + faults
  ELSE outcomes[m]["dead"] + Cardinality(Adding(m)) <= Cardinality(Workers) + faults

DuplicateInv == \A m \in Msgs : DeadCharged(m)

\* Whoever holds a dead letter holds it in one of two ways.
LEMMA HoldersCounted ==
  ASSUME NEW m
  PROVE  /\ IsFiniteSet(Adding(m)) /\ IsFiniteSet(Acking(m))
         /\ Cardinality(Adding(m)) \in Nat /\ Cardinality(Acking(m)) \in Nat
         /\ Cardinality(Workers) \in Nat
         /\ Cardinality(Adding(m)) + Cardinality(Acking(m)) <= Cardinality(Workers)
<1> DEFINE A == Adding(m)
           K == Acking(m)
<1>1. A \subseteq Workers /\ K \subseteq Workers /\ A \cap K = {}
  BY DEF Adding, Acking
<1> HIDE DEF A, K
<1>2. IsFiniteSet(A) /\ IsFiniteSet(K) /\ IsFiniteSet(A \cup K) /\ A \cup K \subseteq Workers
  BY <1>1, WorkersAssumption, FS_Subset
<1>3. Cardinality(A \cup K) = Cardinality(A) + Cardinality(K) - Cardinality({})
  BY <1>1, <1>2, FS_Union
<1>4. Cardinality(A \cup K) <= Cardinality(Workers)
  BY <1>2, WorkersAssumption, FS_Subset
<1>5. Cardinality(A) \in Nat /\ Cardinality(K) \in Nat /\ Cardinality(Workers) \in Nat
  BY <1>2, WorkersAssumption, FS_CardinalityType
<1>6. Cardinality(A) + Cardinality(K) <= Cardinality(Workers)
  BY <1>3, <1>4, <1>5, FS_EmptySet
<1> QED
  BY <1>2, <1>5, <1>6 DEF A, K

\* Nothing is written, and the holders are the same.
LEMMA ChargeKept ==
  ASSUME TypeOK, NEW m \in Msgs, DeadCharged(m), faults' \in Nat, faults' >= faults,
         outcomes'[m]["dead"] = outcomes[m]["dead"],
         Adding(m)' = Adding(m) \/ m \in pel', Acking(m)' = Acking(m),
         m \in pel' => m \in pel \/ outcomes[m]["dead"] = 0
  PROVE  DeadCharged(m)'
<1> DEFINE a == Cardinality(Adding(m))
           k == Cardinality(Acking(m))
           d == outcomes[m]["dead"]
           n == Cardinality(Workers)
<1>1. a \in Nat /\ k \in Nat /\ n \in Nat /\ a + k <= n /\ d \in Nat /\ faults \in Nat
  BY HoldersCounted, Counters
<1>2. /\ m \in pel => d <= k + faults
      /\ m \notin pel => d + a <= n + faults
  BY DEF DeadCharged
<1>3. Cardinality(Acking(m)') = k
  OBVIOUS
<1>4. m \notin pel' => Cardinality(Adding(m)') = a
  OBVIOUS
<1> HIDE DEF a, k, d, n
<1>5. d <= k + faults \/ d + a <= n + faults => d + a <= n + faults
  BY <1>1
<1>0. /\ \A x, y, f, g \in Nat : x <= y + f /\ f <= g => x <= y + g
      /\ \A y, g \in Nat : 0 <= y + g
      /\ d + a \in Nat /\ faults <= faults'
  BY <1>1
<1>6. (d <= k + faults) \/ d = 0 => d <= k + faults'
  BY <1>0, <1>1
<1>7. d + a <= n + faults => d + a <= n + faults'
  BY <1>0, <1>1
<1>8. m \in pel' => d <= k + faults'
  BY <1>2, <1>6 DEF d
<1>9. m \notin pel' => d + a <= n + faults'
  BY <1>2, <1>5, <1>7
<1> QED
  BY <1>3, <1>4, <1>8, <1>9 DEF DeadCharged, d, n

LEMMA HoldersAfter ==
  ASSUME NEW w \in Workers, NEW p, NEW c, NEW b, Moves(w, p, c, b), NEW m
  PROVE  /\ Adding(m)' = (Adding(m) \ {w}) \cup (IF p = "dlq_add" /\ c = m THEN {w} ELSE {})
         /\ Acking(m)' = (Acking(m) \ {w}) \cup (IF p = "dlq_ack" /\ c = m THEN {w} ELSE {})
         /\ w \in Adding(m) <=> worker[w].pc = "dlq_add" /\ worker[w].cur = m
         /\ w \in Acking(m) <=> worker[w].pc = "dlq_ack" /\ worker[w].cur = m
BY DEF Moves, Adding, Acking

LEMMA ChargeWritten ==
  ASSUME TypeOK, TypeOK', AckInv, DuplicateInv, NEW w \in Workers, Writes(w), NEW m \in Msgs
  PROVE  DeadCharged(m)'
<1>0. faults' \in Nat /\ faults' >= faults /\ pel' = pel /\ DeadCharged(m)
  BY Sizes DEF Writes, TypeOK, DuplicateInv
<1>1. worker[w].cur \in Msgs
  BY PelInMsgs DEF Writes, AckInv, Careful, InHands, Holding
<1>2. CASE worker[w].pc = "dlq_add" /\ worker[w].cur = m
  <2>1. Record(w, "dead") /\ Moves(w, "dlq_ack", m, worker[w].batch)
    BY <1>2 DEF Writes
  <2>2. outcomes'[m]["dead"] = outcomes[m]["dead"] + 1
    BY <1>1, <1>2, <2>1, RecordMonotone DEF Outcomes
  <2>3. /\ Adding(m)' = Adding(m) \ {w} /\ w \in Adding(m)
        /\ Acking(m)' = Acking(m) \cup {w} /\ w \notin Acking(m)
    BY <1>2, <2>1, HoldersAfter
  <2> DEFINE a == Cardinality(Adding(m))
             k == Cardinality(Acking(m))
             d == outcomes[m]["dead"]
             n == Cardinality(Workers)
  <2>4. Cardinality(Adding(m)') = a - 1 /\ Cardinality(Acking(m)') = k + 1
    <3>1. IsFiniteSet(Adding(m)) /\ IsFiniteSet(Acking(m))
      BY HoldersCounted
    <3>2. Cardinality(Adding(m) \ {w}) = a - 1
      BY <2>3, <3>1, FS_RemoveElement
    <3>3. Cardinality(Acking(m) \cup {w}) = k + 1
      BY <2>3, <3>1, FS_AddElement
    <3> QED
      BY <2>3, <3>2, <3>3
  <2>5. a \in Nat /\ k \in Nat /\ n \in Nat /\ d \in Nat /\ faults \in Nat
    BY HoldersCounted, Counters
  <2>6. /\ m \in pel => d <= k + faults
        /\ m \notin pel => d + a <= n + faults
    BY <1>0 DEF DeadCharged
  <2> HIDE DEF a, k, d, n
  <2>7. /\ \A x, y, f, g \in Nat : x <= y + f /\ f <= g => x + 1 <= (y + 1) + g
        /\ \A x, y, z, f, g \in Nat : x + z <= y + f /\ f <= g => (x + 1) + (z - 1) <= y + g
        /\ faults <= faults'
    BY <1>0, <2>5
  <2>8. m \in pel => d + 1 <= (k + 1) + faults'
    BY <1>0, <2>5, <2>6, <2>7
  <2>9. m \notin pel => (d + 1) + (a - 1) <= n + faults'
    BY <1>0, <2>5, <2>6, <2>7
  <2> QED
    BY <1>0, <2>2, <2>4, <2>8, <2>9 DEF DeadCharged, d, n
<1>3. CASE ~(worker[w].pc = "dlq_add" /\ worker[w].cur = m)
  <2>1. PICK o \in Outcomes, p \in {"dlq_ack", "ack"} :
          /\ Record(w, o) /\ Moves(w, p, worker[w].cur, worker[w].batch)
          /\ (o = "dead" \/ p = "dlq_ack") => worker[w].pc = "dlq_add"
          /\ worker[w].pc \notin {"dlq_ack"}
    BY DEF Writes, Outcomes
  <2>2. outcomes'[m]["dead"] = outcomes[m]["dead"]
    <3>1. "dead" \in Outcomes
      BY DEF Outcomes
    <3> QED
      BY <1>1, <1>3, <2>1, <3>1, RecordMonotone
  <2>3. Adding(m)' = Adding(m) /\ Acking(m)' = Acking(m)
    BY <1>3, <2>1, HoldersAfter
  <2> QED
    BY <1>0, <2>2, <2>3, ChargeKept
<1> QED
  BY <1>2, <1>3

LEMMA ChargeAcknowledged ==
  ASSUME TypeOK, TypeOK', DuplicateInv, NEW w \in Workers, Acknowledges(w), NEW m \in Msgs
  PROVE  DeadCharged(m)'
<1>0. /\ faults' = faults /\ faults \in Nat /\ outcomes' = outcomes
      /\ pel' = pel \ {worker[w].cur} /\ DeadCharged(m)
  BY Counters DEF Acknowledges, DuplicateInv
<1>1. PICK p \in {"reclaim", "work"} : Moves(w, p, 0, worker[w].batch)
  BY DEF Acknowledges
<1>2. worker[w].pc # "dlq_add"
  BY DEF Acknowledges
<1>3. Adding(m)' = Adding(m)
  BY <1>1, <1>2, HoldersAfter
<1>4. CASE worker[w].cur = m
  <2> DEFINE a == Cardinality(Adding(m))
             k == Cardinality(Acking(m))
             d == outcomes[m]["dead"]
             n == Cardinality(Workers)
  <2>1. a \in Nat /\ k \in Nat /\ n \in Nat /\ d \in Nat /\ a + k <= n
    BY HoldersCounted, Counters
  <2>2. (d <= k + faults) \/ (d + a <= n + faults)
    BY <1>0 DEF DeadCharged
  <2> HIDE DEF a, k, d, n
  <2>3. d + a <= n + faults
    BY <1>0, <2>1, <2>2
  <2>4. m \notin pel'
    BY <1>0, <1>4
  <2>5. Cardinality(Adding(m)') = a
    BY <1>3 DEF a
  <2> QED
    BY <1>0, <2>3, <2>4, <2>5 DEF DeadCharged, d, n
<1>5. CASE worker[w].cur # m
  <2>1. Acking(m)' = Acking(m)
    BY <1>1, <1>5, HoldersAfter
  <2> QED
    BY <1>0, <1>3, <2>1, ChargeKept
<1> QED
  BY <1>4, <1>5

\* A fault takes a holder away, and is counted.
LEMMA ChargeFailed ==
  ASSUME TypeOK, TypeOK', DuplicateInv, NEW w \in Workers, Fails(w), NEW m \in Msgs
  PROVE  DeadCharged(m)'
<1>0. faults' = faults + 1 /\ faults \in Nat /\ UNCHANGED <<pel, outcomes>> /\ DeadCharged(m)
  BY Counters DEF Fails, DuplicateInv
<1>1. PICK p \in {"down", "read", "work"} : \E b : Moves(w, p, 0, b)
  BY DEF Fails
<1>2. Adding(m)' = Adding(m) \ {w} /\ Acking(m)' = Acking(m) \ {w}
  BY <1>1, HoldersAfter
<1> DEFINE a == Cardinality(Adding(m))
           k == Cardinality(Acking(m))
           d == outcomes[m]["dead"]
           n == Cardinality(Workers)
           a2 == Cardinality(Adding(m) \ {w})
           k2 == Cardinality(Acking(m) \ {w})
<1>3. /\ a \in Nat /\ k \in Nat /\ n \in Nat /\ d \in Nat
      /\ a2 = a \/ a2 = a - 1
      /\ k2 = k \/ k2 = k - 1
  BY HoldersCounted, Counters, FS_RemoveElement
<1>4. /\ m \in pel => d <= k + faults
      /\ m \notin pel => d + a <= n + faults
  BY <1>0 DEF DeadCharged
<1>5. Cardinality(Adding(m)') = a2 /\ Cardinality(Acking(m)') = k2
  BY <1>2
<1> HIDE DEF a, k, d, n, a2, k2
<1>6. /\ m \in pel => d <= k2 + (faults + 1)
      /\ m \notin pel => d + a2 <= n + (faults + 1)
  BY <1>0, <1>3, <1>4
<1> QED
  BY <1>0, <1>5, <1>6 DEF DeadCharged, d, n

LEMMA DuplicateNext ==
  TypeOK /\ TypeOK' /\ AckInv /\ DuplicateInv /\ [Next]_vars => DuplicateInv'
<1> SUFFICES ASSUME TypeOK, TypeOK', AckInv, DuplicateInv, [Next]_vars, NEW m \in Msgs
             PROVE  DeadCharged(m)'
  BY DEF DuplicateInv
<1>0. faults \in Nat /\ faults' \in Nat /\ DeadCharged(m)
  BY Sizes DEF TypeOK, DuplicateInv
<1>1. CASE UNCHANGED <<worker, pel, outcomes, faults>>
  <2>1. Adding(m)' = Adding(m) /\ Acking(m)' = Acking(m)
    BY <1>1 DEF Adding, Acking
  <2> QED
    BY <1>0, <1>1, <2>1, ChargeKept
<1>2. ASSUME NEW w \in Workers, Turns(w) PROVE DeadCharged(m)'
  <2>1. PICK p \in {"poll", "reclaim", "read"} : Moves(w, p, worker[w].cur, worker[w].batch)
    BY <1>2 DEF Turns
  <2>2. Adding(m)' = Adding(m) /\ Acking(m)' = Acking(m)
    BY <1>2, <2>1, HoldersAfter DEF Turns
  <2> QED
    BY <1>0, <1>2, <2>2, ChargeKept DEF Turns
<1>3. ASSUME NEW w \in Workers, Reclaims(w) PROVE DeadCharged(m)'
  <2>1. PICK p, c : /\ p \in {"reclaim", "read", "dlq_add"}
                    /\ Moves(w, p, c, worker[w].batch)
                    /\ p = "dlq_add" => c \in pel'
    BY <1>3 DEF Reclaims
  <2>2. worker[w].pc = "reclaim" /\ pel' \subseteq pel /\ UNCHANGED <<outcomes, faults>>
    BY <1>3 DEF Reclaims
  <2>3. Acking(m)' = Acking(m) /\ (Adding(m)' = Adding(m) \/ m \in pel')
    BY <2>1, <2>2, HoldersAfter
  <2> QED
    BY <1>0, <2>2, <2>3, ChargeKept
<1>4. ASSUME NEW w \in Workers, Reads(w) PROVE DeadCharged(m)'
  <2>1. PICK p \in {"poll", "work"} : \E b : Moves(w, p, worker[w].cur, b)
    BY <1>4 DEF Reads
  <2>2. Adding(m)' = Adding(m) /\ Acking(m)' = Acking(m)
    BY <1>4, <2>1, HoldersAfter DEF Reads
  <2>3. m \in pel' => m \in pel \/ outcomes[m]["dead"] = 0
    BY <1>4, UntouchedIsBlank DEF Reads
  <2> QED
    BY <1>0, <1>4, <2>2, <2>3, ChargeKept DEF Reads
<1>5. ASSUME NEW w \in Workers, Takes(w) PROVE DeadCharged(m)'
  <2>1. PICK p \in {"work", "zadd", "insert"} : \E c, b : Moves(w, p, c, b)
    BY <1>5 DEF Takes
  <2>2. Adding(m)' = Adding(m) /\ Acking(m)' = Acking(m)
    BY <1>5, <2>1, HoldersAfter DEF Takes
  <2> QED
    BY <1>0, <1>5, <2>2, ChargeKept DEF Takes
<1> QED
  BY <1>1, <1>2, <1>3, <1>4, <1>5, Shapes, ChargeWritten, ChargeAcknowledged, ChargeFailed

LEMMA DuplicateInit == Init => DuplicateInv
<1> SUFFICES ASSUME Init, NEW m \in Msgs PROVE DeadCharged(m)
  BY DEF DuplicateInv
<1>1. Adding(m) = {} /\ pel = {} /\ faults = 0 /\ outcomes[m]["dead"] = 0
  BY DEF Init, Adding, Down, Outcomes
<1>2. Cardinality(Adding(m)) = 0 /\ Cardinality(Workers) \in Nat
  BY <1>1, FS_EmptySet, HoldersCounted
<1> QED
  BY <1>1, <1>2 DEF DeadCharged

\* However many workers race for a dead letter, and whatever fails: it is
\* written once for each worker and once more for each fault.
THEOREM DuplicatesBoundedTheorem == Spec => []DuplicatesBounded
<1>1. TypeOK /\ DuplicateInv => DuplicatesBounded
  <2> SUFFICES ASSUME TypeOK, DuplicateInv, NEW m \in Msgs
               PROVE  outcomes[m]["dead"] <= Cardinality(Workers) + faults
    BY DEF DuplicatesBounded
  <2> DEFINE a == Cardinality(Adding(m))
             k == Cardinality(Acking(m))
             d == outcomes[m]["dead"]
             n == Cardinality(Workers)
  <2>1. a \in Nat /\ k \in Nat /\ n \in Nat /\ d \in Nat /\ a + k <= n /\ faults \in Nat
    BY HoldersCounted, Counters
  <2>2. (d <= k + faults) \/ (d + a <= n + faults)
    BY DEF DuplicateInv, DeadCharged
  <2> HIDE DEF a, k, d, n
  <2>3. d <= n + faults
    BY <2>1, <2>2
  <2> QED
    BY <2>3 DEF d, n
<1>2. Spec => []TypeOK
  BY TypeCorrect
<1>3. Spec => []AckInv
  BY AckSafety
<1> QED
  BY <1>1, <1>2, <1>3, DuplicateInit, DuplicateNext, PTL DEF Spec
-----------------------------------------------------------------------------
(* A worker that is alone *)

Written(m) == Decisions(m) + outcomes[m]["dead"]

Acks(w, m) == worker[w].pc \in {"ack", "dlq_ack"} /\ worker[w].cur = m

\* It writes one outcome of what is pending, and then acknowledges it unless
\* there is a fault.
WrittenCharged(w, m) ==
  Written(m) <= faults + (IF m \in pel => Acks(w, m) THEN 1 ELSE 0)

\* What it holds stays pending, nobody else being there to acknowledge it, and
\* no batch is open while it reclaims or reads.
HoldsPending(w) ==
  /\ worker[w].batch \subseteq pel
  /\ worker[w].pc \in Holding => worker[w].cur \in pel /\ worker[w].cur \notin worker[w].batch
  /\ worker[w].pc \notin {"work", "zadd", "insert", "ack"} => worker[w].batch = {}

AloneInv ==
  Cardinality(Workers) = 1 =>
    \A w \in Workers : HoldsPending(w) /\ \A m \in Msgs : WrittenCharged(w, m)

LEMMA WrittenType == TypeOK => \A m \in Msgs : Written(m) \in Nat
BY Counters DEF Written, Decisions

LEMMA HoldsPendingNext ==
  ASSUME NEW w \in Workers, HoldsPending(w),
         \/ Turns(w) \/ Reclaims(w) \/ Reads(w) \/ Takes(w)
         \/ Writes(w) \/ Acknowledges(w) \/ Fails(w)
  PROVE  HoldsPending(w)'
<1> USE DEF HoldsPending, Holding, Moves
<1>1. CASE Turns(w)
  BY <1>1 DEF Turns
<1>2. CASE Reclaims(w)
  BY <1>2 DEF Reclaims
<1>3. CASE Reads(w)
  BY <1>3 DEF Reads
<1>4. CASE Takes(w)
  BY <1>4 DEF Takes
<1>5. CASE Writes(w)
  BY <1>5 DEF Writes
<1>6. CASE Acknowledges(w)
  BY <1>6 DEF Acknowledges
<1>7. CASE Fails(w)
  BY <1>7 DEF Fails
<1> QED
  BY <1>1, <1>2, <1>3, <1>4, <1>5, <1>6, <1>7

\* The charge of a signal for which nothing is written.
LEMMA WrittenKept ==
  ASSUME TypeOK, NEW w \in Workers, NEW m \in Msgs, WrittenCharged(w, m),
         faults' \in Nat, Written(m)' = Written(m),
         \/ /\ faults' >= faults
            /\ (m \in pel => Acks(w, m)) => (m \in pel => Acks(w, m))'
         \/ faults' = faults + 1
  PROVE  WrittenCharged(w, m)'
<1>1. Written(m) \in Nat /\ faults \in Nat
  BY WrittenType, Counters
<1>2. \A x, f, g \in Nat : /\ x <= f + 1 /\ g = f + 1 => x <= g
                           /\ x <= f + 1 /\ f <= g => x <= g + 1
                           /\ x <= f /\ f <= g => x <= g
                           /\ x <= f => x <= f + 1
                           /\ x <= f => x <= f + 0
                           /\ x <= f + 0 => x <= f
  OBVIOUS
<1>3. Written(m) <= faults + 1 /\ (Written(m) <= faults \/ (m \in pel => Acks(w, m)))
  BY <1>1, <1>2 DEF WrittenCharged
<1>4. CASE faults' = faults + 1
  <2>1. Written(m) <= faults'
    BY <1>1, <1>2, <1>3, <1>4
  <2> QED
    BY <1>1, <1>2, <2>1 DEF WrittenCharged
<1>5. CASE /\ faults <= faults'
           /\ (m \in pel => Acks(w, m)) => (m \in pel => Acks(w, m))'
  <2>1. Written(m) <= faults' + 1
    BY <1>1, <1>2, <1>3, <1>5
  <2>2. Written(m) <= faults => Written(m) <= faults'
    BY <1>1, <1>2, <1>5
  <2>3. Written(m) <= faults' \/ (m \in pel => Acks(w, m))'
    BY <1>3, <1>5, <2>2
  <2> QED
    BY <1>1, <1>2, <2>1, <2>3 DEF WrittenCharged
<1>6. faults' >= faults => faults <= faults'
  BY <1>1
<1> QED
  BY <1>4, <1>5, <1>6

\* What is written is written for a signal that no outcome of this pass has yet.
LEMMA WrittenWritten ==
  ASSUME TypeOK, TypeOK', AckInv, NEW w \in Workers, HoldsPending(w), Writes(w),
         NEW m \in Msgs, WrittenCharged(w, m)
  PROVE  WrittenCharged(w, m)'
<1>0. faults' \in Nat /\ faults' >= faults /\ pel' = pel /\ faults \in Nat /\ Written(m) \in Nat
  BY Sizes, Counters, WrittenType DEF Writes, TypeOK
<1>1. worker[w].cur \in Msgs /\ worker[w].cur \in pel
  BY PelInMsgs DEF Writes, AckInv, Careful, InHands, HoldsPending, Holding
<1>2. PICK p \in {"ack", "dlq_ack"} : Moves(w, p, worker[w].cur, worker[w].batch)
  BY DEF Writes
<1>3. worker[w].pc \notin {"ack", "dlq_ack"}
  BY DEF Writes
<1>4. Written(m)' = Written(m) + (IF m = worker[w].cur THEN 1 ELSE 0)
  <2>1. CASE Record(w, "dead")
    <3>1. /\ "dead" \in Outcomes /\ "authorized" \in Outcomes
          /\ "rejected" \in Outcomes /\ "unlogged" \in Outcomes
      BY DEF Outcomes
    <3>2. /\ outcomes'[m]["authorized"] = outcomes[m]["authorized"]
          /\ outcomes'[m]["rejected"] = outcomes[m]["rejected"]
          /\ outcomes'[m]["unlogged"] = outcomes[m]["unlogged"]
      BY <1>1, <2>1, <3>1, RecordMonotone
    <3>3. outcomes'[m]["dead"] = outcomes[m]["dead"] + (IF m = worker[w].cur THEN 1 ELSE 0)
      BY <1>1, <2>1, <3>1, RecordMonotone, Counters
    <3>4. Decisions(m)' = Decisions(m)
      BY <3>2 DEF Decisions
    <3> QED
      BY <3>3, <3>4, DecisionsType, Counters DEF Written
  <2>2. ASSUME NEW o \in {"authorized", "rejected", "unlogged"}, Record(w, o)
        PROVE  Written(m)' = Written(m) + (IF m = worker[w].cur THEN 1 ELSE 0)
    <3>1. PICK c \in Msgs : c = worker[w].cur
      BY <1>1
    <3>2. /\ m # c => Decisions(m)' = Decisions(m)
          /\ Decisions(c)' = Decisions(c) + 1
          /\ outcomes'[m]["dead"] = outcomes[m]["dead"]
      BY <2>2, <3>1, DecisionRecorded
    <3>3. Decisions(m) \in Nat /\ outcomes[m]["dead"] \in Nat
      BY DecisionsType, Counters
    <3>4. CASE m = c
      BY <3>1, <3>2, <3>3, <3>4 DEF Written
    <3>5. CASE m # c
      BY <3>1, <3>2, <3>3, <3>5 DEF Written
    <3> QED
      BY <3>4, <3>5
  <2> QED
    BY <2>1, <2>2 DEF Writes
<1>5. CASE m = worker[w].cur
  <2>1. Written(m) <= faults + 0 /\ Written(m)' = Written(m) + 1 /\ Acks(w, m)'
    BY <1>1, <1>2, <1>3, <1>4, <1>5 DEF WrittenCharged, Acks, Moves
  <2>2. \A x, f, g \in Nat : x <= f + 0 /\ g >= f => x + 1 <= g + 1
    OBVIOUS
  <2>3. Written(m)' <= faults' + 1
    BY <1>0, <2>1, <2>2
  <2> QED
    BY <2>1, <2>3 DEF WrittenCharged
<1>6. CASE m # worker[w].cur
  <2>1. ~Acks(w, m) /\ Written(m)' = Written(m)
    BY <1>0, <1>3, <1>4, <1>6 DEF Acks
  <2> QED
    BY <1>0, <2>1, WrittenKept
<1> QED
  BY <1>5, <1>6

LEMMA WrittenNext ==
  ASSUME TypeOK, TypeOK', AckInv, DecisionInv, NEW w \in Workers, HoldsPending(w),
         NEW m \in Msgs, WrittenCharged(w, m),
         \/ Turns(w) \/ Reclaims(w) \/ Reads(w) \/ Takes(w)
         \/ Writes(w) \/ Acknowledges(w) \/ Fails(w)
  PROVE  WrittenCharged(w, m)'
<1>0. faults \in Nat /\ faults' \in Nat /\ Written(m) \in Nat
  BY Sizes, Counters, WrittenType DEF TypeOK
<1>1. outcomes' = outcomes => Written(m)' = Written(m)
  BY DEF Written, Decisions
<1>2. CASE Turns(w) \/ Reclaims(w) \/ Takes(w)
  <2>1. /\ ~Acks(w, m) /\ outcomes' = outcomes /\ faults' >= faults
        /\ pel' \subseteq pel
    BY <1>0, <1>2 DEF Turns, Reclaims, Takes, Acks
  <2> QED
    BY <1>0, <1>1, <2>1, WrittenKept
<1>3. CASE Reads(w)
  <2>1. ~Acks(w, m) /\ outcomes' = outcomes /\ faults' >= faults
    BY <1>3 DEF Reads, Acks
  <2>2. CASE m \in NewEntries
    <3>1. outcomes[m]["dead"] = 0 /\ m > cursor
      <4>1. cursor \in Nat /\ m \in (cursor + 1)..Len(log) /\ Len(log) \in Nat
        BY <2>2, NewEntriesAreNew, Counters DEF TypeOK
      <4> QED
        BY <2>2, <4>1, UntouchedIsBlank
    <3>2. Decisions(m) <= 0
      BY <3>1 DEF DecisionInv, SingleDecision
    <3>3. Written(m) = 0
      BY <3>1, <3>2, DecisionsType DEF Written
    <3>4. Written(m)' <= faults' + 0 /\ Written(m)' <= faults' + 1
      <4>1. \A g \in Nat : 0 <= g + 0 /\ 0 <= g + 1
        OBVIOUS
      <4>2. Written(m)' = 0
        BY <1>1, <2>1, <3>3
      <4> QED
        BY <1>0, <4>1, <4>2
    <3> QED
      BY <3>4 DEF WrittenCharged
  <2>3. CASE m \notin NewEntries
    <3>1. m \in pel' => m \in pel
      BY <1>3, <2>3 DEF Reads
    <3> QED
      BY <1>0, <1>1, <2>1, <3>1, WrittenKept
  <2> QED
    BY <2>2, <2>3
<1>4. CASE Acknowledges(w)
  <2>1. /\ outcomes' = outcomes /\ faults' = faults /\ pel' = pel \ {worker[w].cur}
        /\ Acks(w, m) => worker[w].cur = m
    BY <1>4 DEF Acknowledges, Acks
  <2> QED
    BY <1>0, <1>1, <2>1, WrittenKept
<1>5. CASE Fails(w)
  BY <1>0, <1>1, <1>5, WrittenKept DEF Fails
<1> QED
  BY <1>2, <1>3, <1>4, <1>5, WrittenWritten

LEMMA AloneNext ==
  TypeOK /\ TypeOK' /\ AckInv /\ DecisionInv /\ AloneInv /\ [Next]_vars => AloneInv'
<1> SUFFICES ASSUME TypeOK, TypeOK', AckInv, DecisionInv, AloneInv, [Next]_vars,
                    Cardinality(Workers) = 1, NEW w \in Workers
             PROVE  HoldsPending(w)' /\ \A m \in Msgs : WrittenCharged(w, m)'
  BY DEF AloneInv
<1>1. \A v \in Workers : v = w
  <2>1. \E v : Workers = {v}
    BY WorkersAssumption, FS_Singleton
  <2> QED
    BY <2>1
<1>2. HoldsPending(w) /\ \A m \in Msgs : WrittenCharged(w, m)
  BY DEF AloneInv
<1>3. CASE UNCHANGED <<worker, pel, outcomes, faults>>
  BY <1>2, <1>3 DEF HoldsPending, WrittenCharged, Written, Decisions, Acks
<1>4. CASE \/ Turns(w) \/ Reclaims(w) \/ Reads(w) \/ Takes(w)
           \/ Writes(w) \/ Acknowledges(w) \/ Fails(w)
  BY <1>2, <1>4, HoldsPendingNext, WrittenNext
<1> QED
  BY <1>1, <1>3, <1>4, Shapes

LEMMA AloneInit == Init => AloneInv
<1> SUFFICES ASSUME Init, NEW w \in Workers
             PROVE  HoldsPending(w) /\ \A m \in Msgs : WrittenCharged(w, m)
  BY DEF AloneInv
<1>1. worker[w] = Down /\ pel = {} /\ faults = 0
  BY DEF Init
<1>2. HoldsPending(w)
  BY <1>1 DEF HoldsPending, Down, Holding
<1>3. ASSUME NEW m \in Msgs PROVE WrittenCharged(w, m)
  <2>1. Written(m) = 0
    BY DEF Init, Written, Decisions, Outcomes
  <2> QED
    BY <1>1, <2>1 DEF WrittenCharged
<1> QED
  BY <1>2, <1>3

\* Without a fault, a worker that is alone neither decides and dead-letters the
\* same signal nor dead-letters it twice: its reclaim pass never meets a signal
\* whose outcome it wrote.
THEOREM OneWorkerOneOutcomeTheorem == Spec => []OneWorkerOneOutcome
<1>1. TypeOK /\ AloneInv => OneWorkerOneOutcome
  <2> SUFFICES ASSUME TypeOK, AloneInv, Cardinality(Workers) = 1, NEW m \in Msgs
               PROVE  Written(m) <= 1 + faults
    BY DEF OneWorkerOneOutcome, Written
  <2>1. PICK w \in Workers : TRUE
    <3>1. \E v : Workers = {v}
      BY WorkersAssumption, FS_Singleton
    <3> QED
      BY <3>1
  <2>2. WrittenCharged(w, m) /\ Written(m) \in Nat /\ faults \in Nat
    BY WrittenType, Counters DEF AloneInv
  <2> QED
    BY <2>2 DEF WrittenCharged
<1>2. Spec => []TypeOK
  BY TypeCorrect
<1>3. Spec => []AckInv
  BY AckSafety
<1>4. Spec => []DecisionInv
  BY DecisionSafety
<1> QED
  BY <1>1, <1>2, <1>3, <1>4, AloneInit, AloneNext, PTL DEF Spec
-----------------------------------------------------------------------------
(* The workers implement SignalLifecycle *)

\* What is written shows in the verdict or among the dead letters.
LEMMA VerdictShows ==
  ASSUME TypeOK, NEW m \in Msgs
  PROVE  /\ VerdictOf(m) = "none" <=> Decisions(m) = 0
         /\ \A o \in Outcomes : Wrote(m, o) => VerdictOf(m) # "none" \/ m \in DeadLetters
<1>1. \A o \in Outcomes : outcomes[m][o] \in Nat
  BY DEF TypeOK
<1>2. Verdicts \subseteq Outcomes /\ \A o \in Outcomes : o \in Verdicts \/ o = "dead"
  BY DEF Verdicts, Outcomes
<1>3. Decisions(m) \in Nat
  BY DecisionsType
<1>4. Decisions(m) = 0 <=> \A o \in Verdicts : ~Wrote(m, o)
  <2>1. /\ outcomes[m]["authorized"] \in Nat /\ outcomes[m]["rejected"] \in Nat
        /\ outcomes[m]["unlogged"] \in Nat
    BY <1>1 DEF Outcomes
  <2>2. (\A o \in Verdicts : ~Wrote(m, o))
        <=> /\ ~(outcomes[m]["authorized"] > 0) /\ ~(outcomes[m]["rejected"] > 0)
            /\ ~(outcomes[m]["unlogged"] > 0)
    BY DEF Verdicts, Wrote
  <2> QED
    BY <2>1, <2>2 DEF Decisions
<1>5. VerdictOf(m) = "none" <=> Decisions(m) = 0
  <2>1. CASE Decisions(m) = 0
    BY <2>1 DEF VerdictOf
  <2>2. CASE Decisions(m) # 0 /\ Decisions(m) > 1
    BY <2>2 DEF VerdictOf
  <2>3. CASE Decisions(m) # 0 /\ ~(Decisions(m) > 1)
    <3>1. (CHOOSE o \in Verdicts : Wrote(m, o)) \in Verdicts
      BY <1>4, <2>3
    <3>2. VerdictOf(m) \in Verdicts
      BY <2>3, <3>1 DEF VerdictOf
    <3> QED
      BY <2>3, <3>2 DEF Verdicts
  <2> QED
    BY <2>1, <2>2, <2>3
<1>6. ASSUME NEW o \in Outcomes, Wrote(m, o)
      PROVE  VerdictOf(m) # "none" \/ m \in DeadLetters
  BY <1>2, <1>4, <1>5, <1>6 DEF DeadLetters
<1> QED
  BY <1>5, <1>6

\* A delivered signal is accounted for.
LEMMA DeliveredAccounted ==
  ASSUME TypeOK, AckInv, NEW m \in 1..cursor
  PROVE  m \in Msgs /\ Lifecycle!Accounted(m)
<1>1. m \in Msgs /\ Verdict[m] = VerdictOf(m)
  BY PelInMsgs DEF Verdict
<1>2. m \in pel \/ m <= trimmed \/ \E o \in Outcomes : Wrote(m, o)
  BY DEF AckInv, NoSilentLoss
<1> QED
  BY <1>1, <1>2, VerdictShows DEF Lifecycle!Accounted

LEMMA LifecycleInit == Init => Lifecycle!Init
<1> SUFFICES ASSUME Init PROVE Lifecycle!Init
  OBVIOUS
<1>1. \A m \in Msgs, o \in Outcomes : outcomes[m][o] = 0
  BY DEF Init
<1>2. \A m \in Msgs : Decisions(m) = 0 /\ ~Wrote(m, "dead")
  BY <1>1 DEF Decisions, Wrote, Outcomes
<1>3. Verdict = [m \in Msgs |-> "none"] /\ DeadLetters = {}
  BY <1>2 DEF Verdict, VerdictOf, DeadLetters
<1>4. Len(log) = 0
  BY DEF Init
<1> QED
  BY <1>3, <1>4 DEF Init, Lifecycle!Init

\* While no outcome is written, verdicts and dead letters stay.
LEMMA OutcomesKept ==
  ASSUME UNCHANGED outcomes
  PROVE  UNCHANGED <<Verdict, DeadLetters>>
BY DEF Verdict, VerdictOf, Decisions, Wrote, DeadLetters

LEMMA LifecycleStutters ==
  ASSUME UNCHANGED <<streamVars, pel, outcomes>>
  PROVE  UNCHANGED Lifecycle!signalVars
BY OutcomesKept DEF streamVars, Lifecycle!signalVars

LEMMA PublishPublishes ==
  ASSUME TypeOK, NEW k \in Kinds, Publish(k)
  PROVE  Lifecycle!Publish
<1>1. log \in Seq(Kinds) /\ Len(log) \in Nat /\ trimmed \in 0..Len(log) /\ StreamMaxLen \in Nat
  BY SizesAssumption DEF TypeOK
<1>2. Len(log') = Len(log) + 1
  BY <1>1 DEF Publish
<1>3. /\ trimmed' \in trimmed..Len(log)
      /\ trimmed' = trimmed \/ trimmed' + StreamMaxLen <= Len(log) + 1
      /\ UNCHANGED <<cursor, pel, outcomes>>
  BY DEF Publish, pelVars
<1> QED
  BY <1>1, <1>2, <1>3, OutcomesKept DEF Lifecycle!Publish

LEMMA DeliverHandsOut ==
  ASSUME TypeOK, Deliver(NewEntries), UNCHANGED outcomes
  PROVE  Lifecycle!HandOut
<1> DEFINE skipped == IF cursor < trimmed THEN trimmed ELSE cursor
<1>1. /\ Len(log) \in Nat /\ cursor \in Nat /\ trimmed \in Nat /\ BatchSize \in Nat
      /\ cursor <= Len(log)
  BY Sizes DEF TypeOK
<1>2. /\ skipped \in Nat /\ cursor <= skipped /\ trimmed <= skipped
      /\ skipped = cursor \/ skipped = trimmed
  BY <1>1
<1>3. NewEntries = {m \in (skipped + 1)..Len(log) : m <= skipped + BatchSize}
  BY DEF NewEntries
<1> HIDE DEF skipped
<1>4. CASE NewEntries = {}
  <2>1. cursor' = cursor /\ pel' = pel
    BY <1>4 DEF Deliver
  <2>2. {m \in (cursor + 1)..cursor' : m > trimmed} = {}
    BY <1>1, <2>1
  <2> QED
    BY <1>1, <2>1, <2>2, OutcomesKept DEF Deliver, Lifecycle!HandOut
<1>5. CASE NewEntries # {}
  <2>1. cursor' \in NewEntries /\ \A m \in NewEntries : m <= cursor'
    BY <1>5 DEF Deliver
  <2>2. cursor' \in Nat /\ skipped < cursor' /\ cursor' <= Len(log)
        /\ cursor' <= skipped + BatchSize
    BY <1>1, <1>2, <1>3, <2>1
  <2>3. {m \in (cursor + 1)..cursor' : m > trimmed} = NewEntries
    <3>1. ASSUME NEW m \in (cursor + 1)..cursor', m > trimmed PROVE m \in NewEntries
      BY <1>1, <1>2, <1>3, <2>2, <3>1
    <3>2. ASSUME NEW m \in NewEntries PROVE m \in (cursor + 1)..cursor' /\ m > trimmed
      BY <1>1, <1>2, <1>3, <2>1, <2>2, <3>2
    <3> QED
      BY <3>1, <3>2
  <2>4. cursor' \in cursor..Len(log)
    BY <1>1, <1>2, <2>2
  <2> QED
    BY <2>3, <2>4, OutcomesKept DEF Deliver, Lifecycle!HandOut
<1> QED
  BY <1>4, <1>5

\* An XACK, or a claim that drops a trimmed entry, settles or changes nothing.
LEMMA AcknowledgeSettles ==
  ASSUME TypeOK, NEW m \in Msgs, Acknowledge(m), UNCHANGED <<streamVars, outcomes>>,
         m <= trimmed \/ \E o \in Outcomes : Wrote(m, o)
  PROVE  [Lifecycle!Next]_(Lifecycle!signalVars)
<1>1. CASE m \in pel
  <2>1. m <= trimmed \/ Verdict[m] # "none" \/ m \in DeadLetters
    BY VerdictShows DEF Verdict
  <2>2. Lifecycle!Settle(m)
    BY <1>1, <2>1, OutcomesKept DEF Acknowledge, streamVars, Lifecycle!Settle
  <2> QED
    BY <2>2 DEF Lifecycle!Next
<1>2. CASE m \notin pel
  <2>1. UNCHANGED <<streamVars, pel, outcomes>>
    BY <1>2 DEF Acknowledge
  <2> QED
    BY <2>1, LifecycleStutters
<1> QED
  BY <1>1, <1>2

LEMMA XClaimSettles ==
  ASSUME TypeOK, NEW m \in Msgs, XClaim(m), UNCHANGED <<streamVars, outcomes>>
  PROVE  [Lifecycle!Next]_(Lifecycle!signalVars)
<1>1. CASE m <= trimmed /\ Acknowledge(m)
  BY <1>1, AcknowledgeSettles
<1>2. CASE UNCHANGED pel
  BY <1>2, LifecycleStutters
<1> QED
  BY <1>1, <1>2 DEF XClaim, pelVars

\* What Record(w, o) does to the signals that the worker does not hold.
LEMMA OthersKept ==
  ASSUME TypeOK, NEW w \in Workers, NEW c \in Msgs, c = worker[w].cur,
         NEW o \in Outcomes, Record(w, o)
  PROVE  \A m \in Msgs : m # c => outcomes'[m] = outcomes[m]
BY DEF Record, TypeOK

LEMMA DeadLetterBuries ==
  ASSUME TypeOK, AckInv, NEW w \in Workers, NEW c \in 1..cursor, c = worker[w].cur,
         Record(w, "dead"), UNCHANGED <<streamVars, pel>>
  PROVE  Lifecycle!Bury(c)
<1>1. c \in Msgs /\ Lifecycle!Accounted(c) /\ c <= cursor
  BY DeliveredAccounted DEF TypeOK
<1>2. "dead" \in Outcomes /\ Verdicts \subseteq Outcomes
      /\ \A o \in Verdicts : o # "dead"
  BY DEF Outcomes, Verdicts
<1>3. \A m \in Msgs, o \in Outcomes :
        m # c \/ o # "dead" => outcomes'[m][o] = outcomes[m][o]
  BY <1>1, <1>2, RecordMonotone
<1>4. outcomes'[c]["dead"] > 0
  BY <1>1, <1>2, RecordedIsWritten
<1>5. DeadLetters' = DeadLetters \union {c}
  BY <1>1, <1>2, <1>3, <1>4 DEF DeadLetters, Wrote
<1>6. ASSUME NEW m \in Msgs PROVE VerdictOf(m)' = VerdictOf(m)
  <2>1. \A o \in Verdicts : Wrote(m, o)' <=> Wrote(m, o)
    BY <1>2, <1>3 DEF Wrote
  <2>2. Decisions(m)' = Decisions(m)
    BY <1>3 DEF Decisions, Outcomes
  <2>3. (CHOOSE o \in Verdicts : Wrote(m, o)') = CHOOSE o \in Verdicts : Wrote(m, o)
    BY <2>1
  <2>4. CASE Decisions(m) = 0
    BY <2>2, <2>4 DEF VerdictOf
  <2>5. CASE Decisions(m) # 0 /\ Decisions(m) > 1
    BY <2>2, <2>5 DEF VerdictOf
  <2>6. CASE Decisions(m) # 0 /\ ~(Decisions(m) > 1)
    <3>1. VerdictOf(m) = CHOOSE o \in Verdicts : Wrote(m, o)
      BY <2>6 DEF VerdictOf
    <3>2. VerdictOf(m)' = CHOOSE o \in Verdicts : Wrote(m, o)'
      BY <2>2, <2>6 DEF VerdictOf
    <3> QED
      BY <2>3, <3>1, <3>2
  <2> QED
    BY <2>4, <2>5, <2>6
<1>7. Verdict' = Verdict
  BY <1>6 DEF Verdict
<1> QED
  BY <1>1, <1>5, <1>7 DEF streamVars, Lifecycle!Bury

LEMMA DecisionDecides ==
  ASSUME TypeOK, TypeOK', AckInv, DecisionInv, NEW w \in Workers,
         worker[w].pc \in Deciding, NEW o \in Verdicts, Record(w, o),
         UNCHANGED <<streamVars, pel>>
  PROVE  \E c \in Msgs : Lifecycle!Decide(c)
<1>1. PICK c \in 1..cursor : c = worker[w].cur
  BY DEF AckInv, Careful, InHands, Holding, Deciding
<1>2. c \in Msgs /\ Lifecycle!Accounted(c) /\ c <= cursor
  <2>1. cursor \in Nat
    BY DEF TypeOK
  <2> QED
    BY <2>1, DeliveredAccounted
<1>3. Decisions(c) = 0
  BY <1>1 DEF DecisionInv, Pristine
<1>4. o \in {"authorized", "rejected", "unlogged"} /\ o \in Outcomes
  BY DEF Verdicts, Outcomes
<1>5. Decisions(c)' = 1
  BY <1>1, <1>2, <1>3, <1>4, DecisionRecorded
<1>6. \A m \in Msgs : m # c => outcomes'[m] = outcomes[m]
  BY <1>1, <1>2, <1>4, OthersKept
<1>7. Wrote(c, o)'
  BY <1>1, <1>2, <1>4, RecordedIsWritten DEF Wrote
<1>8. VerdictOf(c)' \in Verdicts
  <2>1. (CHOOSE p \in Verdicts : Wrote(c, p)') \in Verdicts
    BY <1>7
  <2>2. VerdictOf(c)' = CHOOSE p \in Verdicts : Wrote(c, p)'
    BY <1>5 DEF VerdictOf
  <2> QED
    BY <2>1, <2>2
<1>9. ASSUME NEW m \in Msgs, m # c
      PROVE  VerdictOf(m)' = VerdictOf(m)
  <2>1. outcomes'[m] = outcomes[m]
    BY <1>6, <1>9
  <2> QED
    BY <2>1 DEF VerdictOf, Decisions, Wrote
<1>10. DeadLetters' = DeadLetters
  BY <1>1, <1>2, <1>4, DecisionRecorded DEF DeadLetters, Wrote
<1>11. Verdict[c] = "none"
  BY <1>2, <1>3 DEF Verdict, VerdictOf
<1>12. Verdict' = [Verdict EXCEPT ![c] = VerdictOf(c)']
  BY <1>2, <1>9 DEF Verdict
<1> QED
  BY <1>2, <1>8, <1>10, <1>11, <1>12 DEF streamVars, Lifecycle!Decide

LEMMA LifecycleNext ==
  TypeOK /\ TypeOK' /\ AckInv /\ DecisionInv /\ [Next]_vars
    => [Lifecycle!Next]_(Lifecycle!signalVars)
<1> SUFFICES ASSUME TypeOK, TypeOK', AckInv, DecisionInv, [Next]_vars
             PROVE  [Lifecycle!Next]_(Lifecycle!signalVars)
  OBVIOUS
<1> USE DEF vars, pelVars, historyVars
<1>1. ASSUME UNCHANGED <<streamVars, pel, outcomes>>
      PROVE  [Lifecycle!Next]_(Lifecycle!signalVars)
  BY <1>1, LifecycleStutters
<1>2. ASSUME NEW k \in Kinds, Publish(k) PROVE [Lifecycle!Next]_(Lifecycle!signalVars)
  BY <1>2, PublishPublishes DEF Lifecycle!Next
<1>3. ASSUME NEW m \in Msgs, IdlePasses(m) PROVE [Lifecycle!Next]_(Lifecycle!signalVars)
  BY <1>1, <1>3 DEF IdlePasses
<1>4. ASSUME NEW w \in Workers, WorkerStep(w)
      PROVE  [Lifecycle!Next]_(Lifecycle!signalVars)
  <2>0. worker[w] \in WorkerState /\ Careful(w)
    BY DEF TypeOK, AckInv
  <2>1. CASE Start(w)
    BY <1>1, <2>1 DEF Start
  <2>2. CASE BeginReclaim(w)
    BY <1>1, <2>2 DEF BeginReclaim
  <2>3. CASE EndReclaim(w)
    BY <1>1, <2>3 DEF EndReclaim
  <2>4. ASSUME NEW e \in worker[w].scan, ReclaimForRetry(w, e) \/ ReclaimForDlq(w, e)
        PROVE  [Lifecycle!Next]_(Lifecycle!signalVars)
    <3>1. e.id \in Msgs
      BY <2>0 DEF WorkerState, ScanEntries
    <3>2. XClaim(e.id) /\ UNCHANGED <<streamVars, outcomes>>
      BY <2>4 DEF ReclaimForRetry, ReclaimForDlq
    <3> QED
      BY <3>1, <3>2, XClaimSettles
  <2>5. CASE AddToDlq(w)
    <3>1. worker[w].cur \in 1..cursor
      BY <2>0, <2>5 DEF AddToDlq, Careful, InHands, Holding
    <3>2. Record(w, "dead") /\ UNCHANGED <<streamVars, pel>>
      BY <2>5 DEF AddToDlq
    <3>3. Lifecycle!Bury(worker[w].cur)
      BY <3>1, <3>2, DeadLetterBuries
    <3> QED
      BY <3>1, <3>3, PelInMsgs DEF Lifecycle!Next
  <2>6. CASE AckDlq(w)
    <3>1. worker[w].cur \in Msgs /\ Wrote(worker[w].cur, "dead")
      BY <2>0, <2>6, PelInMsgs DEF AckDlq, Careful, InHands, WrittenBeforeAck, Holding
    <3>2. Acknowledge(worker[w].cur) /\ UNCHANGED <<streamVars, outcomes>>
      BY <2>6 DEF AckDlq
    <3>3. "dead" \in Outcomes
      BY DEF Outcomes
    <3> QED
      BY <3>1, <3>2, <3>3, AcknowledgeSettles
  <2>7. CASE ReadNew(w)
    BY <2>7, DeliverHandsOut DEF ReadNew, Lifecycle!Next
  <2>8. CASE ReadNothing(w)
    BY <1>1, <2>8 DEF ReadNothing
  <2>9. ASSUME NEW m \in worker[w].batch, Process(w, m)
        PROVE  [Lifecycle!Next]_(Lifecycle!signalVars)
    BY <1>1, <2>9 DEF Process
  <2>10. CASE Authorize(w) \/ Reject(w)
    <3>1. /\ worker[w].pc \in Deciding
          /\ \E o \in Verdicts : Record(w, o)
          /\ UNCHANGED <<streamVars, pel>>
      BY <2>10 DEF Authorize, Reject, Deciding, Verdicts
    <3> QED
      BY <3>1, DecisionDecides DEF Lifecycle!Next
  <2>11. CASE Ack(w)
    <3>1. worker[w].cur \in Msgs /\ \E o \in Outcomes : Wrote(worker[w].cur, o)
      BY <2>0, <2>11, PelInMsgs DEF Ack, Careful, InHands, WrittenBeforeAck, Holding
    <3>2. Acknowledge(worker[w].cur) /\ UNCHANGED <<streamVars, outcomes>>
      BY <2>11 DEF Ack
    <3> QED
      BY <3>1, <3>2, AcknowledgeSettles
  <2>12. CASE EndBatch(w)
    BY <1>1, <2>12 DEF EndBatch
  <2> QED
    BY <1>4, <2>1, <2>2, <2>3, <2>4, <2>5, <2>6, <2>7, <2>8, <2>9, <2>10, <2>11, <2>12
       DEF WorkerStep
<1>5. ASSUME NEW w \in Workers, WorkerFault(w)
      PROVE  [Lifecycle!Next]_(Lifecycle!signalVars)
  <2>1. CASE Crash(w) \/ ReclaimCallFails(w) \/ MessageCallFails(w)
    BY <1>1, <2>1 DEF Crash, ReclaimCallFails, MessageCallFails
  <2>2. CASE ReadFails(w)
    <3>1. CASE Deliver(NewEntries)
      BY <2>2, <3>1, DeliverHandsOut DEF ReadFails, Lifecycle!Next
    <3>2. CASE UNCHANGED <<streamVars, pelVars>>
      BY <1>1, <2>2, <3>2 DEF ReadFails
    <3> QED
      BY <2>2, <3>1, <3>2 DEF ReadFails
  <2> QED
    BY <1>5, <2>1, <2>2 DEF WorkerFault
<1>6. CASE UNCHANGED vars
  BY <1>1, <1>6
<1> QED
  BY <1>2, <1>3, <1>4, <1>5, <1>6 DEF Next

\* Any number of workers implement SignalLifecycle: what they do to a signal,
\* with crashes, failed calls, stale snapshots and claims, is what it allows.
THEOREM ImplementsSignalLifecycleTheorem == Spec => ImplementsSignalLifecycle
<1>1. Spec => []TypeOK
  BY TypeCorrect
<1>2. Spec => []AckInv
  BY AckSafety
<1>3. Spec => []DecisionInv
  BY DecisionSafety
<1> QED
  BY <1>1, <1>2, <1>3, LifecycleInit, LifecycleNext, PTL
     DEF Spec, ImplementsSignalLifecycle, Lifecycle!Spec
==============================================================================
