----------------------------- MODULE TradeMemory -----------------------------
(***************************************************************************)
(* The TradeMemoryEngine of src/workers/memory_worker.py.  Authorized      *)
(* trades wait in the sorted set oniquant:pending_trades, whose score is   *)
(* the time of expiry.  An engine repeats a cycle: read the clock, purge   *)
(* what has expired by then, take a snapshot of the first BATCH_SIZE       *)
(* others, compare each with its price, and send one pipeline that adds    *)
(* the trades that hit their target to oniquant:match_validation and       *)
(* removes them from the set.  The pipeline is no transaction: Redis may   *)
(* serve other clients between its commands, and the connection may break  *)
(* after any of them.  The client is made with retry_on_timeout: when the  *)
(* replies time out it sends the same pipeline once more, in the same      *)
(* cycle, whatever of it ran.  (It repeats a purge or a scan, too; both    *)
(* have the effect of a single one that ran later.)                        *)
(***************************************************************************)
EXTENDS Naturals, FiniteSets

CONSTANTS
  Engines,      \* memory workers that share the set (docker-compose runs one)
  Kinds,        \* kinds of member that may be in the set
  BatchSize,    \* BATCH_SIZE (100)
  MaxTrades,    \* bound: trades ever authorized
  MaxTime,      \* bound: the clock stops there
  MaxFailures   \* bound: failed cycles and timed out pipelines per engine

\* The engine knows a price for a "tracked" trade and none for an "untracked"
\* one; a "malformed" member is JSON on which the comparison raises (the
\* webhook's target_price may be null), a "corrupt" one is not JSON.
AllKinds == {"tracked", "untracked", "malformed", "corrupt"}

ASSUME KindsAssumption == Kinds \subseteq AllKinds
ASSUME BoundsAssumption ==
  /\ BatchSize \in Nat \ {0}
  /\ {MaxTrades, MaxTime, MaxFailures} \subseteq Nat

VARIABLES
  clock,       \* time.time()
  kind,        \* kind of each trade, "absent" before it is authorized
  expiry,      \* score of each trade
  pending,     \* members of oniquant:pending_trades
  engine,      \* each engine's control point and local variables
  promotions,  \* entries of oniquant:match_validation per engine and trade
  failures     \* history: failed cycles and timed out pipelines of each engine

tradeVars   == <<kind, expiry>>
historyVars == <<promotions, failures>>
vars == <<clock, tradeVars, pending, engine, historyVars>>

Trades == 1..MaxTrades
Times  == 0..MaxTime

EngineState ==
  [pc : {"idle", "purge", "scan", "pipeline"},
   now : Times,              \* the clock as the cycle began
   queue : SUBSET Trades,    \* members whose own command is still to run
   hits : SUBSET Trades,     \* promoted_members, removed by the last command
   replayed : BOOLEAN]       \* has the client spent its one retry?

Idle ==
  [pc |-> "idle", now |-> 0, queue |-> {}, hits |-> {}, replayed |-> FALSE]

TypeOK ==
  /\ clock \in Times
  /\ kind \in [Trades -> Kinds \union {"absent"}]
  /\ expiry \in [Trades -> Times]
  /\ pending \in SUBSET {t \in Trades : kind[t] # "absent"}
  /\ engine \in [Engines -> EngineState]
  /\ promotions \in [Engines -> [Trades -> Nat]]
  /\ failures \in [Engines -> 0..MaxFailures]

Init ==
  /\ clock = 0
  /\ kind = [t \in Trades |-> "absent"]
  /\ expiry = [t \in Trades |-> 0]
  /\ pending = {}
  /\ engine = [g \in Engines |-> Idle]
  /\ promotions = [g \in Engines |-> [t \in Trades |-> 0]]
  /\ failures = [g \in Engines |-> 0]

-----------------------------------------------------------------------------
(* The environment *)

Tick ==
  /\ clock < MaxTime
  /\ clock' = clock + 1
  /\ UNCHANGED <<tradeVars, pending, engine, historyVars>>

\* The orchestration worker's ZADD.  It computed the expiry, from the payload's
\* ttl_seconds, before the command ran: the trade may be born expired.
Add(t, k, e) ==
  /\ kind[t] = "absent"
  /\ kind' = [kind EXCEPT ![t] = k]
  /\ expiry' = [expiry EXCEPT ![t] = e]
  /\ pending' = pending \union {t}
  /\ UNCHANGED <<clock, engine, historyVars>>

-----------------------------------------------------------------------------
(* One cycle of run(): _purge_expired, _scan_and_promote *)

\* Mutated form: the time is rounded up.
BeginCycleRoundedUp(g) ==
  /\ engine[g].pc = "idle"
  /\ engine' = [engine EXCEPT ![g].pc = "purge", ![g].now = clock + 1]
  /\ UNCHANGED <<clock, tradeVars, pending, historyVars>>

BeginCycle(g) ==
  /\ engine[g].pc = "idle"
  /\ engine' = [engine EXCEPT ![g].pc = "purge", ![g].now = clock]
  /\ UNCHANGED <<clock, tradeVars, pending, historyVars>>

\* Mutated form: the purge removes what expires in the next instant, too.
PurgeEarly(g) ==
  /\ engine[g].pc = "purge"
  /\ pending' = {t \in pending : expiry[t] > engine[g].now + 1}
  /\ engine' = [engine EXCEPT ![g].pc = "scan"]
  /\ UNCHANGED <<clock, tradeVars, historyVars>>

\* Mutated form: the purge decodes the members, and a malformed one stops it.
PurgeDecodes(g) ==
  /\ engine[g].pc = "purge"
  /\ IF \E t \in pending : kind[t] = "malformed"
     THEN UNCHANGED pending /\ engine' = [engine EXCEPT ![g] = Idle]
     ELSE /\ pending' = {t \in pending : expiry[t] > engine[g].now}
          /\ engine' = [engine EXCEPT ![g].pc = "scan"]
  /\ UNCHANGED <<clock, tradeVars, historyVars>>

\* ZREMRANGEBYSCORE -inf now.
Purge(g) ==
  /\ engine[g].pc = "purge"
  /\ pending' = {t \in pending : expiry[t] > engine[g].now}
  /\ engine' = [engine EXCEPT ![g].pc = "scan"]
  /\ UNCHANGED <<clock, tradeVars, historyVars>>

\* The order of a sorted set: by score, then by member.
Precedes(s, t) == expiry[s] < expiry[t] \/ (expiry[s] = expiry[t] /\ s <= t)

\* Mutated form: the scan has no lower end.
BatchOfAll(now) ==
  {t \in pending : Cardinality({s \in pending : Precedes(s, t)}) <= BatchSize}

\* ZRANGEBYSCORE now +inf LIMIT 0 BatchSize; the lower end is inclusive.
Batch(now) ==
  LET live == {t \in pending : expiry[t] >= now}
  IN  {t \in live : Cardinality({s \in live : Precedes(s, t)}) <= BatchSize}

\* The snapshot is compared with prices, which may or may not have crossed the
\* target.  A malformed member raises out of the cycle before the pipeline is
\* sent; an untracked one is skipped; a corrupt one is queued for removal.
Scan(g) ==
  /\ engine[g].pc = "scan"
  /\ LET batch == Batch(engine[g].now)
     IN  IF \E t \in batch : kind[t] = "malformed"
         THEN engine' = [engine EXCEPT ![g] = Idle]
         ELSE \E hits \in SUBSET {t \in batch : kind[t] = "tracked"} :
                engine' = [engine EXCEPT
                  ![g].pc = "pipeline", ![g].hits = hits,
                  ![g].queue = hits \union {t \in batch : kind[t] = "corrupt"}]
  /\ UNCHANGED <<clock, tradeVars, pending, historyVars>>

IsNextCommand(g, t) ==
  /\ engine[g].pc = "pipeline"
  /\ t \in engine[g].queue /\ \A s \in engine[g].queue : Precedes(t, s)

\* ZREM of a corrupt member.
DropCorrupt(g, t) ==
  /\ IsNextCommand(g, t) /\ kind[t] = "corrupt"
  /\ pending' = pending \ {t}
  /\ engine' = [engine EXCEPT ![g].queue = @ \ {t}]
  /\ UNCHANGED <<clock, tradeVars, historyVars>>

\* XADD of a trade that hit its target.
Promote(g, t) ==
  /\ IsNextCommand(g, t) /\ kind[t] # "corrupt"
  /\ promotions' = [promotions EXCEPT ![g][t] = @ + 1]
  /\ engine' = [engine EXCEPT ![g].queue = @ \ {t}]
  /\ UNCHANGED <<clock, tradeVars, pending, failures>>

\* Mutated form: the ZREM is queued ahead of the XADDs.
RemoveHitsFirst(g) ==
  /\ engine[g].pc = "pipeline"
  /\ pending' = pending \ engine[g].hits
  /\ engine' = [engine EXCEPT ![g] =
                  IF @.queue = {} THEN Idle ELSE [@ EXCEPT !.hits = {}]]
  /\ UNCHANGED <<clock, tradeVars, historyVars>>

\* Mutated form: the ZREM is missing.
RemoveHitsForgotten(g) ==
  /\ engine[g].pc = "pipeline" /\ engine[g].queue = {}
  /\ engine' = [engine EXCEPT ![g] = Idle]
  /\ UNCHANGED <<clock, tradeVars, pending, historyVars>>

\* The last command: ZREM of all the promoted members (none: no command).
RemoveHits(g) ==
  /\ engine[g].pc = "pipeline" /\ engine[g].queue = {}
  /\ pending' = pending \ engine[g].hits
  /\ engine' = [engine EXCEPT ![g] = Idle]
  /\ UNCHANGED <<clock, tradeVars, historyVars>>

\* The replies time out after some of the pipeline ran, its ZREM perhaps
\* included, and the client sends all of it again.  A corrupt member that was
\* removed already is no work for the second ZREM, so it need not be queued.
Replay(g) ==
  /\ engine[g].pc = "pipeline" /\ ~engine[g].replayed /\ failures[g] < MaxFailures
  /\ \/ UNCHANGED pending
     \/ engine[g].queue = {} /\ pending' = pending \ engine[g].hits
  /\ engine' = [engine EXCEPT ![g].queue = @ \union engine[g].hits,
                              ![g].replayed = TRUE]
  /\ failures' = [failures EXCEPT ![g] = @ + 1]
  /\ UNCHANGED <<clock, tradeVars, promotions>>

\* The process dies or a call raises; what was sent and has not run is lost.
\* The next cycle starts from the clock again.
CycleFails(g) ==
  /\ engine[g].pc # "idle" /\ failures[g] < MaxFailures
  /\ failures' = [failures EXCEPT ![g] = @ + 1]
  /\ engine' = [engine EXCEPT ![g] = Idle]
  /\ UNCHANGED <<clock, tradeVars, pending, promotions>>

-----------------------------------------------------------------------------
EngineStep(g) ==
  \/ BeginCycle(g) \/ Purge(g) \/ Scan(g)
  \/ \E t \in engine[g].queue : DropCorrupt(g, t) \/ Promote(g, t)
  \/ RemoveHits(g)

Next ==
  \/ Tick
  \/ \E t \in Trades, k \in Kinds, e \in Times : Add(t, k, e)
  \/ \E g \in Engines : EngineStep(g) \/ Replay(g) \/ CycleFails(g)

Spec == Init /\ [][Next]_vars

(***************************************************************************)
(* run() loops forever with an except clause around each cycle, and time   *)
(* passes; no price is owed to cross and no signal to arrive.              *)
(***************************************************************************)
FairSpec ==
  Spec /\ WF_vars(Tick) /\ \A g \in Engines : WF_vars(EngineStep(g))

-----------------------------------------------------------------------------
(* Properties *)

Promoted(t) == \E g \in Engines : promotions[g][t] > 0

\* A trade leaves the set only for a reason: it is in the match stream, it has
\* expired, or it was corrupt.  Each XADD runs before the one ZREM, so a
\* pipeline cut anywhere, or interleaved with another engine's, loses none.
NothingLost ==
  \A t \in Trades :
    kind[t] # "absent" =>
      t \in pending \/ Promoted(t) \/ expiry[t] <= clock \/ kind[t] = "corrupt"

\* An engine promotes a trade once, and once more for each cycle of its own that
\* fails between the XADD and the ZREM and each pipeline of its own that timed
\* out: neither a second engine nor a slow pipeline adds to it.
PromotionsBounded ==
  \A g \in Engines, t \in Trades : promotions[g][t] <= 1 + failures[g]

\* A promotion may come after the trade has expired, but never when it had
\* already expired as the cycle began, nor for a member with no price.
PromotesAlive ==
  \A g \in Engines, t \in Trades :
    promotions'[g][t] # promotions[g][t] =>
      kind[t] = "tracked" /\ engine[g].now <= expiry[t]

NoPromotionOfTheDead == [][PromotesAlive]_vars

\* With one engine, a trade that left the set is not promoted again, even if
\* cycles fail: purging and promoting do not cross.  The one exception is the
\* replay of the pipeline that promoted and removed it.
LeavesGone ==
  \A g \in Engines, t \in Trades :
    /\ Engines = {g} /\ kind[t] # "absent" /\ t \notin pending
    /\ promotions'[g][t] # promotions[g][t]
    => engine[g].replayed /\ t \in engine[g].hits /\ promotions[g][t] > 0

GoneForGood == [][LeavesGone]_vars

\* Every authorized trade leaves the set in the end, whatever else is in it: a
\* malformed member aborts the scan but not the purge, which comes first.
EventuallyLeaves ==
  \A t \in Trades : kind[t] # "absent" ~> (kind[t] # "absent" /\ t \notin pending)

\* What one engine promises of a trade, seen from outside (TradeLifecycle): it
\* waits, and then is settled once and for good.
StatusOf(t) ==
  IF kind[t] = "absent" THEN "absent"
  ELSE IF t \in pending THEN "pending"
  ELSE IF Promoted(t) THEN "promoted"
  ELSE IF kind[t] = "corrupt" THEN "discarded" ELSE "expired"

Status == [t \in Trades |-> StatusOf(t)]

Lifecycle == INSTANCE TradeLifecycle WITH status <- Status

\* One engine implements the lifecycle, whatever cycles fail.  (Two do not: one
\* may purge a trade that the other has yet to add to the match stream.)
ImplementsLifecycle == Lifecycle!Spec
==============================================================================
