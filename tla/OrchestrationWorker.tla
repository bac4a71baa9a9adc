------------------------- MODULE OrchestrationWorker -------------------------
(***************************************************************************)
(* The consumer-group worker of src/workers/orchestration_worker.py.       *)
(* Workers read oniquant:raw_signals with XREADGROUP ">", decide every     *)
(* signal, write its outcome (ZADD to pending_trades, or an INSERT into    *)
(* signal_ledger) and XACK it.  Every 100 cycles a worker walks the pending*)
(* entries list (PEL) of the group, claims what has been idle for 30 s and *)
(* moves what was delivered MAX_RETRIES times to the dead letter queue.    *)
(* One action is one command the worker awaits: between two of them every  *)
(* other worker may run, and the process may die.                          *)
(***************************************************************************)
EXTENDS Naturals, FiniteSets, Sequences

CONSTANTS
  Workers,        \* consumers of orchestrator_cg
  Kinds,          \* kinds of payload the webhook may publish
  MaxRetries,     \* MAX_RETRIES (3)
  BatchSize,      \* count of XREADGROUP (10)
  ReclaimWindow,  \* count of XPENDING (50)
  ReclaimEvery,   \* cycles between two reclaim passes (100)
  StreamMaxLen,   \* maxlen of the webhook's XADD (50000)
  MaxMsgs,        \* bound: signals ever published
  MaxFaults       \* bound: crashes and failed calls

\* "undecodable" is a body orjson.loads rejects, "unprocessable" is JSON that
\* makes _process_signal raise (an array, a null price): the webhook publishes
\* the raw body unchecked.
AllKinds == {"valid", "undecodable", "unprocessable"}

ASSUME WorkersAssumption == IsFiniteSet(Workers)
ASSUME KindsAssumption == Kinds \subseteq AllKinds
ASSUME SizesAssumption ==
  /\ {MaxRetries, BatchSize, ReclaimWindow, ReclaimEvery, StreamMaxLen}
       \subseteq Nat \ {0}
  /\ {MaxMsgs, MaxFaults} \subseteq Nat

VARIABLES
  log,         \* kinds of the signals published so far; a signal is its index
  trimmed,     \* the oldest `trimmed` signals are gone from the stream
  cursor,      \* last-delivered-id of the consumer group
  pel,         \* signals delivered and not acknowledged
  stale,       \* the pending ones idle for more than 30 s
  deliveries,  \* times_delivered, saturating at MaxRetries + 1
  worker,      \* each worker's control point and local variables
  outcomes,    \* what was written for each signal, and how often
  attempts,    \* history: times a worker began to process each signal
  faults       \* history: crashes and failed calls so far

streamVars  == <<log, trimmed, cursor>>
pelVars     == <<pel, stale, deliveries>>
historyVars == <<attempts, faults>>
vars == <<streamVars, pelVars, worker, outcomes, historyVars>>

Msgs == 1..MaxMsgs

\* Members of pending_trades, rows of signal_ledger, rejections whose INSERT
\* failed (no trace but a warning), dead letters.
Outcomes == {"authorized", "rejected", "unlogged", "dead"}

Phases == {"down", "poll", "reclaim", "dlq_add", "dlq_ack", "read",
           "work", "zadd", "insert", "ack"}

\* An idle entry of XPENDING's snapshot, with its delivery count at the time.
ScanEntries == [id : Msgs, count : 0..(MaxRetries + 1)]

WorkerState ==
  [pc : Phases,
   cur : Msgs \union {0},          \* the signal in the worker's hands
   batch : SUBSET Msgs,            \* read and still to process
   scan : SUBSET ScanEntries,      \* snapshot entries still to handle
   cycle : 0..(ReclaimEvery - 1)]  \* cycle counter modulo ReclaimEvery

Down == [pc |-> "down", cur |-> 0, batch |-> {}, scan |-> {}, cycle |-> 0]

TypeOK ==
  /\ log \in Seq(Kinds) /\ Len(log) <= MaxMsgs
  /\ trimmed \in 0..Len(log) /\ cursor \in 0..Len(log)
  /\ pel \in SUBSET (1..cursor) /\ stale \in SUBSET pel
  /\ deliveries \in [Msgs -> 0..(MaxRetries + 1)]
  /\ worker \in [Workers -> WorkerState]
  /\ outcomes \in [Msgs -> [Outcomes -> Nat]]
  /\ attempts \in [Msgs -> Nat]
  /\ faults \in 0..MaxFaults

Init ==
  /\ log = <<>> /\ trimmed = 0 /\ cursor = 0
  /\ pel = {} /\ stale = {}
  /\ deliveries = [m \in Msgs |-> 0]
  /\ worker = [w \in Workers |-> Down]
  /\ outcomes = [m \in Msgs |-> [o \in Outcomes |-> 0]]
  /\ attempts = [m \in Msgs |-> 0]
  /\ faults = 0

-----------------------------------------------------------------------------
(* Redis: the stream and the consumer group *)

\* Mutated form: reading the stream from its start (an id instead of ">").
EntriesFromStart ==
  {m \in (trimmed + 1)..Len(log) : m <= trimmed + BatchSize}

\* XREADGROUP ">" returns the first BatchSize entries after cursor that are
\* still in the stream.
NewEntries ==
  LET skipped == IF cursor < trimmed THEN trimmed ELSE cursor
  IN  {m \in (skipped + 1)..Len(log) : m <= skipped + BatchSize}

\* Mutated form: delivery that does not move the group's last-delivered-id.
DeliverInPlace(S) ==
  /\ pel' = pel \union S
  /\ deliveries' = [m \in Msgs |-> IF m \in S THEN 1 ELSE deliveries[m]]
  /\ UNCHANGED <<streamVars, stale>>

\* Delivered entries join the PEL with a first delivery.
Deliver(S) ==
  /\ cursor' \in (IF S = {} THEN {cursor} ELSE {m \in S : \A n \in S : n <= m})
  /\ pel' = pel \union S
  /\ deliveries' = [m \in Msgs |-> IF m \in S THEN 1 ELSE deliveries[m]]
  /\ UNCHANGED <<log, trimmed, stale>>

\* XACK removes the entry whoever owns it; Redis does not check the consumer.
Acknowledge(m) ==
  /\ pel' = pel \ {m}
  /\ stale' = stale \ {m}
  /\ UNCHANGED deliveries

\* XCLAIM with min_idle_time returns an entry only if it is pending and has
\* been idle that long now, whatever XPENDING said earlier.
Claimable(m) == m \in stale /\ m > trimmed

\* Mutated form: XCLAIM JUSTID, which does not count a delivery.
XClaimUncounted(m) ==
  /\ stale' = IF Claimable(m) THEN stale \ {m} ELSE stale
  /\ UNCHANGED <<pel, deliveries>>

\* Mutated form: XCLAIM FORCE, which makes an entry pending that is not.
XClaimForced(m) ==
  \/ /\ m > trimmed
     /\ pel' = pel \union {m} /\ stale' = stale \ {m}
     /\ deliveries' = [deliveries EXCEPT ![m] =
                         IF @ > MaxRetries THEN @ ELSE @ + 1]
  \/ m <= trimmed /\ Acknowledge(m)

\* XCLAIM restarts the idle time and counts a delivery.  It drops an entry that
\* was trimmed from the stream out of the PEL (Redis 7).
XClaim(m) ==
  \/ /\ Claimable(m)
     /\ stale' = stale \ {m}
     /\ deliveries' = [deliveries EXCEPT ![m] =
                         IF @ > MaxRetries THEN @ ELSE @ + 1]
     /\ UNCHANGED pel
  \/ m <= trimmed /\ Acknowledge(m)
  \/ m > trimmed /\ m \notin stale /\ UNCHANGED pelVars

-----------------------------------------------------------------------------
(* The environment *)

Fault == faults < MaxFaults /\ faults' = faults + 1

\* POST /webhook/luxalgo: XADD with an approximate MAXLEN, which trims any
\* number of the oldest entries but keeps at least StreamMaxLen.
Publish(k) ==
  /\ Len(log) < MaxMsgs
  /\ log' = Append(log, k)
  /\ trimmed' \in {t \in trimmed..Len(log) :
                     t = trimmed \/ t + StreamMaxLen <= Len(log) + 1}
  /\ UNCHANGED <<cursor, pelVars, worker, outcomes, historyVars>>

\* 30 s go by without a command on pending entry m.
IdlePasses(m) ==
  /\ m \in pel \ stale
  /\ stale' = stale \union {m}
  /\ UNCHANGED <<streamVars, pel, deliveries, worker, outcomes, historyVars>>

\* The process dies, or is stopped, and loses what it held in memory.
Crash(w) ==
  /\ worker[w].pc # "down"
  /\ Fault
  /\ worker' = [worker EXCEPT ![w] = Down]
  /\ UNCHANGED <<streamVars, pelVars, outcomes, attempts>>

-----------------------------------------------------------------------------
(* The reclaim pass: _reclaim_pending and _handle_dead_letter *)

\* connect() and the head of run(): the group exists, cycle is 0.
Start(w) ==
  /\ worker[w].pc = "down"
  /\ worker' = [worker EXCEPT ![w].pc = "poll"]
  /\ UNCHANGED <<streamVars, pelVars, outcomes, historyVars>>

\* XPENDING: a snapshot of the first ReclaimWindow pending entries, of which
\* the loop acts on the idle ones.
BeginReclaim(w) ==
  /\ worker[w].pc = "poll" /\ worker[w].cycle = 0
  /\ LET window == {m \in pel :
                      Cardinality({n \in pel : n <= m}) <= ReclaimWindow}
     IN  worker' = [worker EXCEPT
           ![w].pc = "reclaim",
           ![w].scan = {[id |-> m, count |-> deliveries[m]] : m \in window \cap stale}]
  /\ UNCHANGED <<streamVars, pelVars, outcomes, historyVars>>

IsNextEntry(w, e) ==
  e \in worker[w].scan /\ \A f \in worker[w].scan : e.id <= f.id

\* Mutated form: off by one.
RetriesNearlySpent(e) == e.count + 1 >= MaxRetries

RetriesSpent(e) == e.count >= MaxRetries

\* Fewer than MAX_RETRIES deliveries: XCLAIM, whose result is discarded.
ReclaimForRetry(w, e) ==
  /\ worker[w].pc = "reclaim" /\ IsNextEntry(w, e) /\ ~RetriesSpent(e)
  /\ XClaim(e.id)
  /\ worker' = [worker EXCEPT ![w].scan = @ \ {e}]
  /\ UNCHANGED <<streamVars, outcomes, historyVars>>

\* Too many deliveries: XCLAIM, and only a claimed entry goes on.  orjson.loads
\* of an undecodable payload raises out of the whole pass.
ReclaimForDlq(w, e) ==
  /\ worker[w].pc = "reclaim" /\ IsNextEntry(w, e) /\ RetriesSpent(e)
  /\ XClaim(e.id)
  /\ \/ /\ ~Claimable(e.id)
        /\ worker' = [worker EXCEPT ![w].scan = @ \ {e}]
     \/ /\ Claimable(e.id) /\ log[e.id] = "undecodable"
        /\ worker' = [worker EXCEPT ![w].scan = {}, ![w].pc = "read"]
     \/ /\ Claimable(e.id) /\ log[e.id] # "undecodable"
        /\ worker' = [worker EXCEPT ![w].scan = @ \ {e},
                                    ![w].pc = "dlq_add", ![w].cur = e.id]
  /\ UNCHANGED <<streamVars, outcomes, historyVars>>

\* The worker records outcome o for the signal in its hands.
Record(w, o) == outcomes' = [outcomes EXCEPT ![worker[w].cur][o] = @ + 1]

\* XADD to the dead letter queue ...
AddToDlq(w) ==
  /\ worker[w].pc = "dlq_add"
  /\ Record(w, "dead")
  /\ worker' = [worker EXCEPT ![w].pc = "dlq_ack"]
  /\ UNCHANGED <<streamVars, pelVars, historyVars>>

\* Mutated form: a dead letter left in the PEL.
AckDlqForgotten(w) ==
  /\ worker[w].pc = "dlq_ack"
  /\ worker' = [worker EXCEPT ![w].pc = "reclaim", ![w].cur = 0]
  /\ UNCHANGED <<streamVars, pelVars, outcomes, historyVars>>

\* ... and then, in a command of its own, XACK.
AckDlq(w) ==
  /\ worker[w].pc = "dlq_ack"
  /\ Acknowledge(worker[w].cur)
  /\ worker' = [worker EXCEPT ![w].pc = "reclaim", ![w].cur = 0]
  /\ UNCHANGED <<streamVars, outcomes, historyVars>>

EndReclaim(w) ==
  /\ worker[w].pc = "reclaim" /\ worker[w].scan = {}
  /\ worker' = [worker EXCEPT ![w].pc = "read"]
  /\ UNCHANGED <<streamVars, pelVars, outcomes, historyVars>>

-----------------------------------------------------------------------------
(* Reading and processing: run() and _process_signal *)

AboutToRead(w) ==
  worker[w].pc = "read" \/ (worker[w].pc = "poll" /\ worker[w].cycle # 0)

NextCycle(w) == (worker[w].cycle + 1) % ReclaimEvery

\* XREADGROUP returned entries: they become the worker's batch.
ReadNew(w) ==
  /\ AboutToRead(w) /\ NewEntries # {}
  /\ Deliver(NewEntries)
  /\ worker' = [worker EXCEPT ![w].pc = "work", ![w].batch = NewEntries]
  /\ UNCHANGED <<outcomes, historyVars>>

\* XREADGROUP blocked for 1 s and returned nothing.
ReadNothing(w) ==
  /\ AboutToRead(w) /\ NewEntries = {}
  /\ worker' = [worker EXCEPT ![w].pc = "poll", ![w].cycle = NextCycle(w)]
  /\ UNCHANGED <<streamVars, pelVars, outcomes, historyVars>>

\* orjson.loads, the config lookup and arbiter.evaluate, whose verdict depends
\* on priors and macro state.  An exception (a bad payload, a failed read) leaves
\* the entry in the PEL, and the loop goes on.
Process(w, m) ==
  /\ worker[w].pc = "work"
  /\ m \in worker[w].batch /\ \A n \in worker[w].batch : m <= n
  /\ attempts' = [attempts EXCEPT ![m] = @ + 1]
  /\ \/ /\ log[m] = "valid"
        /\ \E branch \in {"zadd", "insert"} :
             worker' = [worker EXCEPT ![w].batch = @ \ {m}, ![w].cur = m,
                                      ![w].pc = branch]
        /\ UNCHANGED faults
     \/ /\ worker' = [worker EXCEPT ![w].batch = @ \ {m}]
        /\ IF log[m] = "valid" THEN Fault ELSE UNCHANGED faults
  /\ UNCHANGED <<streamVars, pelVars, outcomes>>

\* AUTHORIZE: ZADD to pending_trades.
Authorize(w) ==
  /\ worker[w].pc = "zadd"
  /\ Record(w, "authorized")
  /\ worker' = [worker EXCEPT ![w].pc = "ack"]
  /\ UNCHANGED <<streamVars, pelVars, historyVars>>

\* REJECT: INSERT into signal_ledger.  A failed INSERT is logged and swallowed:
\* the signal counts as processed.
Reject(w) ==
  /\ worker[w].pc = "insert"
  /\ \/ Record(w, "rejected") /\ UNCHANGED faults
     \/ Record(w, "unlogged") /\ Fault
  /\ worker' = [worker EXCEPT ![w].pc = "ack"]
  /\ UNCHANGED <<streamVars, pelVars, attempts>>

\* Mutated form: no XACK after a successful _process_signal.
AckForgotten(w) ==
  /\ worker[w].pc = "ack"
  /\ worker' = [worker EXCEPT ![w].pc = "work", ![w].cur = 0]
  /\ UNCHANGED <<streamVars, pelVars, outcomes, historyVars>>

\* XACK of a processed signal.
Ack(w) ==
  /\ worker[w].pc = "ack"
  /\ Acknowledge(worker[w].cur)
  /\ worker' = [worker EXCEPT ![w].pc = "work", ![w].cur = 0]
  /\ UNCHANGED <<streamVars, outcomes, historyVars>>

EndBatch(w) ==
  /\ worker[w].pc = "work" /\ worker[w].batch = {}
  /\ worker' = [worker EXCEPT ![w].pc = "poll", ![w].cycle = NextCycle(w)]
  /\ UNCHANGED <<streamVars, pelVars, outcomes, historyVars>>

-----------------------------------------------------------------------------
(***************************************************************************)
(* Calls that raise without having run; the handler around them decides    *)
(* where the worker goes on.  A command that ran and whose reply was lost  *)
(* leaves the same state as that command followed by a failure of the next *)
(* one, except for XREADGROUP.                                             *)
(***************************************************************************)

\* Inside _reclaim_pending: its own try/except ends the pass.
ReclaimCallFails(w) ==
  /\ \/ worker[w].pc = "poll" /\ worker[w].cycle = 0
     \/ worker[w].pc = "reclaim" /\ worker[w].scan # {}
     \/ worker[w].pc \in {"dlq_add", "dlq_ack"}
  /\ Fault
  /\ worker' = [worker EXCEPT ![w].pc = "read", ![w].cur = 0, ![w].scan = {}]
  /\ UNCHANGED <<streamVars, pelVars, outcomes, attempts>>

\* Mutated form: XACK in a finally clause.
MessageCallFailsAcked(w) ==
  /\ worker[w].pc \in {"zadd", "ack"}
  /\ Fault /\ Acknowledge(worker[w].cur)
  /\ worker' = [worker EXCEPT ![w].pc = "work", ![w].cur = 0]
  /\ UNCHANGED <<streamVars, outcomes, attempts>>

\* Inside the per-message try/except: no XACK, the next message follows.
MessageCallFails(w) ==
  /\ worker[w].pc \in {"zadd", "ack"}
  /\ Fault
  /\ worker' = [worker EXCEPT ![w].pc = "work", ![w].cur = 0]
  /\ UNCHANGED <<streamVars, pelVars, outcomes, attempts>>

\* XREADGROUP raises, with or without having delivered entries on the server.
\* The loop starts over without counting the cycle.
ReadFails(w) ==
  /\ AboutToRead(w)
  /\ Fault
  /\ Deliver(NewEntries) \/ UNCHANGED <<streamVars, pelVars>>
  /\ worker' = [worker EXCEPT ![w].pc = "poll"]
  /\ UNCHANGED <<outcomes, attempts>>

-----------------------------------------------------------------------------
WorkerStep(w) ==
  \/ Start(w) \/ BeginReclaim(w) \/ EndReclaim(w)
  \/ \E e \in worker[w].scan : ReclaimForRetry(w, e) \/ ReclaimForDlq(w, e)
  \/ AddToDlq(w) \/ AckDlq(w)
  \/ ReadNew(w) \/ ReadNothing(w)
  \/ \E m \in worker[w].batch : Process(w, m)
  \/ Authorize(w) \/ Reject(w) \/ Ack(w) \/ EndBatch(w)

WorkerFault(w) ==
  Crash(w) \/ ReclaimCallFails(w) \/ MessageCallFails(w) \/ ReadFails(w)

Next ==
  \/ \E k \in Kinds : Publish(k)
  \/ \E m \in Msgs : IdlePasses(m)
  \/ \E w \in Workers : WorkerStep(w) \/ WorkerFault(w)

Spec == Init /\ [][Next]_vars

(***************************************************************************)
(* run() loops forever and docker-compose restarts a dead worker, so every *)
(* worker keeps taking steps; 30 s of idle time do pass.  Faults and       *)
(* webhooks are never owed.                                                *)
(***************************************************************************)
Fairness ==
  /\ \A w \in Workers : WF_vars(WorkerStep(w))
  /\ \A m \in Msgs : WF_vars(IdlePasses(m))

FairSpec == Spec /\ Fairness

-----------------------------------------------------------------------------
(* Properties *)

Wrote(m, o) == outcomes[m][o] > 0

Decisions(m) ==
  outcomes[m]["authorized"] + outcomes[m]["rejected"] + outcomes[m]["unlogged"]

\* No signal is decided twice, whatever crashes, fails or is reclaimed: a second
\* decision could trade it again.  It holds because run() reads only new
\* entries and nothing puts a reclaimed one back into a batch.
SingleDecision ==
  \A m \in Msgs : Decisions(m) <= attempts[m] /\ attempts[m] <= 1

\* A delivered signal leaves the PEL only with its outcome written: XACK comes
\* after the ZADD, the INSERT or the dead letter on every path.  The exceptions
\* are named: a swallowed INSERT error and a signal trimmed from the stream.
NoSilentLoss ==
  \A m \in 1..cursor :
    m \in pel \/ m <= trimmed \/ \E o \in Outcomes : Wrote(m, o)

\* A dead letter has been delivered more than MAX_RETRIES times: XPENDING showed
\* MAX_RETRIES and the claim added one, even if other workers claimed the entry
\* between the snapshot and the claim.
DeadOnlyAfterRetries ==
  \A m \in Msgs : Wrote(m, "dead") => deliveries[m] > MaxRetries

\* XADD and XACK of a dead letter are not atomic, so it can be duplicated, but
\* only once per further worker (a stalled one races the next claim) and once
\* per fault.
DuplicatesBounded ==
  \A m \in Msgs : outcomes[m]["dead"] <= Cardinality(Workers) + faults

\* With one worker, a signal is both decided and dead-lettered, or dead-lettered
\* twice, only after a fault: the worker does not race with itself.
OneWorkerOneOutcome ==
  Cardinality(Workers) = 1 =>
    \A m \in Msgs : Decisions(m) + outcomes[m]["dead"] <= 1 + faults

\* Every published signal is eventually out of the stream's hands for good:
\* delivered (or trimmed) and no longer pending.
Settled(m) == (m <= cursor \/ m <= trimmed) /\ m \notin pel

EventuallySettled ==
  \A m \in Msgs : m <= Len(log) ~> Settled(m)

\* What a signal goes through, seen from outside (SignalLifecycle).
Verdicts == {"authorized", "rejected", "unlogged"}

VerdictOf(m) ==
  IF Decisions(m) = 0 THEN "none"
  ELSE IF Decisions(m) > 1 THEN "repeated"
  ELSE CHOOSE o \in Verdicts : Wrote(m, o)

Verdict == [m \in Msgs |-> VerdictOf(m)]

DeadLetters == {m \in Msgs : Wrote(m, "dead")}

Lifecycle == INSTANCE SignalLifecycle WITH
  Signals <- Msgs, Kept <- StreamMaxLen,
  published <- Len(log), lost <- trimmed, handedOut <- cursor, pending <- pel,
  verdict <- Verdict, dead <- DeadLetters

\* Any number of workers hand out every signal once and in order, decide it once
\* at most and settle it for good: what one of them settled, no stale snapshot,
\* late claim or retry of another makes pending again.
ImplementsSignalLifecycle == Lifecycle!Spec
==============================================================================
