# OniFx in TLA+

OniQuant v6.0 (this repository) is a pipeline of asyncio services that talk
through Redis: a webhook appends trading signals to a stream, a consumer-group
worker authorizes or rejects them, an engine holds the authorized ones until
their price is hit or they expire, and a synthetic matcher simulates the fills.
These modules model the parts of that pipeline that carry protocol: who writes
and removes what, in which order, and what happens when a call fails, a process
dies or two of them run at once. Beside them stand the algorithms that decide
something: the arbiter's odds, position sizing, the walk through an order book,
the windows of the optimiser.

Paths below are relative to `src/`. Two generations of the code live side by
side: `app/` and `workers/` are the newer one; the files at the root (`matcher.py`,
`memory_worker.py`, `broker_*.py`, `orchestrator.py`) are the older, partly
richer one. `docker-compose.yml` runs three of the services described here, with one
replica each and `restart: unless-stopped`: the webhook of `app/main.py` and the
memory and orchestration workers of `workers/`. How many of the others run, and who
restarts them, the repository does not say.

## Inventory

| component | state it keeps | operations | interacts through |
|---|---|---|---|
| webhook, `app/main.py` | none | `ingest_luxalgo`: XADD | stream `raw_signals`, MAXLEN ~50000 |
| orchestration worker, `workers/orchestration_worker.py` | cycle counter, batch in hand | XREADGROUP loop, `_process_signal`, `_reclaim_pending`, `_handle_dead_letter` | `raw_signals` and its PEL, `pending_trades`, `signal_ledger`, dead letter queue |
| Bayesian arbiter, `app/services/orchestrator.py` | counters | `evaluate`: prior, macro, likelihood, posterior > 0.695 | called by the worker; reads Redis and the ledger |
| trade memory, `workers/memory_worker.py` | counters, the time its cycle began | purge, scan, promotion pipeline | sorted set `pending_trades`, stream `match_validation` |
| order registry, `broker_tradfi.py`, `broker_crypto.py` | none | `register_simulated_order`: HSET, EXPIRE, SADD | `pending_match:{id}` and its index |
| synthetic matcher, `matcher.py` | time its scan began, orders to look at | scan, purge, `evaluate_market_fill` | `pending_match`, `l2_cache`, stream `active_executions` |
| IBKR connector, `app/services/broker_tradfi.py` | token bucket, lock | `acquire` before each gateway call | IB Gateway |
| Bybit connector, `broker_crypto.py` | in-memory books | order-book callback (a thread), 10 Hz flush, batches of orders | `l2_cache` with a TTL of 2 s, Bybit |
| legacy consumer, `orchestrator.py` | batch in hand | XREADGROUP loop, `evaluate_signal`, `_route_signal` | `raw_signals`, `active_executions` |
| fill model of the app, `app/services/matcher.py` | none | `evaluate_l2_fill`, `evaluate_and_persist` | ledger |
| reconciler, `app/services/reconciler.py` | none | compares expired trades with the ledger | `pending_trades`, ledger, `lost_signals` |
| cold boot, `scripts/cold_boot.py` | none | rebuilds `pending_trades` and the executions from the ledger | ledger, `pending_trades`, `active_executions` |
| health monitor, `workers/health_monitor.py` | none | a pass over the heartbeats every 15 s | `heartbeat:{desk}`, alerts |
| walk-forward optimiser, `workers/wfo_engine.py` | none | windows, choice in sample, verdict out of sample | ledger, `config:{desk}` |
| sizing, `app/quant/sizing.py` | none | Kelly fraction, caps, rounding | ledger, active positions |
| calibration, warm-up | none | periodic reads and SETs | ledger, keys in Redis |

What makes them correct, and what is hard about it:

* **Orchestration worker.** A signal gets one decision and never disappears
  without a trace; what keeps failing is dead-lettered, late enough and not too
  often. Hard: it is at-least-once delivery with an acknowledgement after the
  effect, claims race with slow workers, the delivery counts are a snapshot, the
  stream is trimmed behind its back, and every command may fail on its own.
* **Trade memory.** A trade waits, and is then settled once: promoted, expired
  or discarded. Hard: the pipeline is no transaction, the time is that of the
  cycle's start, a bad member aborts the cycle, and a second engine may run.
* **Synthetic matcher.** An order is filled once or purged after its expiry.
  Hard: writing takes three commands, purging two, and the hash has a TTL of its
  own that can run out anywhere in between.
* **Rate limiter.** What is sent in any interval is bounded, and every caller is
  served. Hard: the holder sleeps with the lock and wakes late, and some messages
  pass it by.
* **Arbiter, sizing, L2 walk, optimiser.** Pure functions with boundaries, each in
  two generations or with several limits that must not undo each other.
* **Prior cache.** A prior is recent and never runs backwards. Hard: set after the
  query, by several evaluations at once.
* **Book feed.** Redis follows the feed and forgets a dead one. Hard: a thread
  changes the dict while a task iterates over it.
* **Legacy consumer.** A signal is executed at most once. Hard: nothing reads what
  is pending.
* **Health monitor.** A silent desk is reported, a live one is not, neither too
  often. Hard: the monitor writes the key that the desk writes.
* **Ledger, reconciler, cold boot.** What they reconstruct or report is what was
  lost. Hard: they read what another component is removing or never wrote.

The full list of hazards, each at its line, is in `PROJECT.json`.

## Modules

| module | models | state |
|---|---|---|
| `OrchestrationWorker` | webhook XADD, the consumer group, the worker | `log`/`trimmed`/`cursor` (stream and last-delivered-id), `pel`/`stale`/`deliveries` (pending entries, idle > 30 s, times delivered), `worker` (a control point and the locals of `run` and `_reclaim_pending` per worker), `outcomes` (what was written for a signal, and how often) |
| `SignalLifecycle` | abstract: a signal is handed out once and in order, decided once at most and settled for good | `published`, `lost`, `handedOut`, `pending`, `verdict`, `dead` |
| `TradeMemory` | `TradeMemoryEngine` | `pending`/`expiry` (the sorted set), `engine` (per engine: control point, `now`, queue of the pipeline, whether it was `replayed`), `promotions`, `failures` |
| `SyntheticMatcher` | `register_simulated_order`, `SyntheticMatcherWorker` | `stored`/`deadline`/`index` (hashes, their TTLs, the set), `registrar`, `matcher`, `fills` |
| `TradeLifecycle` | abstract: a trade waits and is settled once, never expired early | `clock`, `expiry`, `status` |
| `TokenBucket` | `TokenBucketLimiter.acquire` | `tokens`, `lastRefill`, `queue` (of the lock), `wake`, `sent` |
| `IBGateway` | the connector's calls around `TokenBucket`, which it extends | `open`, `cancels` |
| `Arbiter` | likelihood, posterior, floor and routing of both generations | one evaluation: `signal`, `macro`, `winRate`, `verdict` |
| `PriorCache` | `_fetch_prior` of several arbiters at once | `rows` (the ledger), `cache`, `fetch` (a control point per arbiter), `prior` |
| `LegacyConsumer` | `run_orchestrator_consumer` | `published`/`trimmed`/`lost` (the stream, and what MAXLEN took of it unread), `lastId`, `unacked`, `worker` (per consumer: is its task running, its batch), `verdicts`, `executed` |
| `Sizing` | `calculate_position_size` and what it calls | one evaluation: `trade`, `held`, `size` |
| `VolumeWalk` | `evaluate_queue_position`, `evaluate_l2_fill` | one evaluation: `order`, `raw`, `result` |
| `WalkForward` | `run_wfo_grid`, publication, `validate_oos` | `at`, `window`, `results`, `published` |
| `BatchOrders` | `place_batch_orders` | `orders`, `next`, `responses`, `placed`, `outcome` |
| `BookFeed` | `_on_orderbook_update`, `_flush_l2_to_redis`, `run` | `memory`, `flush` (a control point, the pipeline), `redis` |
| `HealthMonitor` | `check_desks`, `run` | `beat`, `pass`, `wake` |
| `SignalLedger` | composition: arbiter, worker, engine, matcher, reconciler, cold boot around one asset and desk | `ledger`, `cache`, `decided`, `pending`, `queue`, `scan`, `lost`, `replayed` |
| `*_proofs` | the theorems about each component; `Algorithms_proofs` and `Services_proofs` about all that `MCAlgorithms` and `MCServices` hold | |
| `MC*` | instances for TLC: symmetry sets, what comments of the code claim and the code does not do, and runs that hold several independent components | |

One action is one awaited Redis command, because that is where the event loop
and the other processes get their turn; what runs between two awaits belongs to
the command it follows or precedes. `PROJECT.json`'s `map` gives the lines of each
definition. Operators that stand for Redis itself (`NewEntries`, `XClaim`,
`Held`, `Precedes`, ...) are external: they follow the documented behaviour of
the commands the code issues (Redis 7, through redis-py).

How the code's shape appears in the modules:

* A message is its index in the stream. A payload is one of the few kinds that
  the code tells apart: one that parses and is processed, one orjson rejects, one
  that makes the handler raise. The webhook stores the raw body unchecked, so all
  three occur. In `TradeMemory` a member is `tracked` (its symbol has a price),
  `untracked`, `malformed` (a null `target_price` passes the arbiter and makes the
  comparison raise) or `corrupt` (not JSON: no writer in this repository produces
  one, but the engine has a branch for it).
* The arbiter's verdict, whether a price crossed its target and whether the book
  fills an order are free choices: the worker around them must be right for all.
* A failed command has not run. One that ran and whose reply was lost leaves the
  state of that command followed by a failure of the next, which the model also
  has, except XREADGROUP, whose delivery nobody would ever see: `ReadFails` has
  both forms. A crash loses the worker's locals, and nothing else.
* The client of the memory engine is made with `retry_on_timeout`
  (`workers/memory_worker.py:133`): when the replies of its pipeline time out,
  redis-py sends all of it once more, inside the cycle, whatever of it ran. `Replay`
  is that step: a trade may be promoted twice without a failed cycle, and by a single
  engine after it left the set. A purge or scan that is sent twice has the effect of
  one that ran later. The webhooks' pools (`app/core/redis.py:31`, `main.py:62`) are
  made the same way, so one request may append two entries; they are two signals of
  `OrchestrationWorker` and `LegacyConsumer`. The orchestration worker, the matcher
  and the older orchestrator do not ask for it, and redis-py 5.2.1 then does not retry.
* `stale` abstracts the idle time: an entry becomes idle at any time after its
  last delivery, so a slow worker can be overtaken by a claim of its entry.
* Approximate trimming may drop any number of the oldest entries as long as
  `StreamMaxLen` stay. `deliveries` saturates at `MaxRetries + 1`: the code only
  compares it with `MAX_RETRIES`.
* In `TokenBucket` time counts in the ticks in which one unit flows in and a token
  is `Cost` units, so that the float arithmetic becomes exact; rounding is left
  out. `queue` is the FIFO of `asyncio.Lock`.
* `SyntheticMatcher` takes `time.time()` and the clock of Redis as one.
* The orders a registrar writes always parse, so the matcher's branch for corrupt
  order data, which does what the purge does, is left out.

* In `Arbiter`, `Sizing`, `VolumeWalk` and `WalkForward` numbers are exact fractions
  over a common unit, chosen so that every constant of the code is a whole number
  of it. Thresholds are compared as the code compares them, divisions multiplied
  out. The back-test's metrics are free choices.
* `VolumeWalk` gives both matchers the same order and book. The app's matcher has no
  MARKET orders; it gets the limit that the root matcher derives from one.
* In `SignalLedger` an evaluation and a cycle of the engine are one step each,
  because `Arbiter`, `TradeMemory` and `OrchestrationWorker` look at their insides. What
  can go wrong inside a cycle is part of the step: a pipeline that breaks after some
  of its commands, and one that is replayed. `evaluate_and_persist` has no caller in
  the repository; `Match` takes it to be an external consumer of the match stream that
  delivers at least once: one that fails delivers again.
  The verdict is free within what the number of wins among the rows allows. A
  rejection inserts a row, an authorization does not, a fill does. A trade that a
  cold boot makes is another member than the original: its payload carries no
  `signal_id`.
* A book, a row of the ledger and a prior are the number of the message or row
  that brought them, so that older and newer can be told apart. Whether a message of
  the feed is a snapshot or a delta is therefore not seen by `BookFeed`; what a
  fragment of a book does to a fill is in `VolumeWalk`.
* The older webhook's MAXLEN trims the stream under the older consumer: `Publish` of
  `LegacyConsumer` may drop any of the oldest entries beyond `StreamMaxLen`, and `lost`
  holds those that nobody had read. Its start may fail: `run_orchestrator_consumer`
  raises, its task ends, and `main` waits for a signal to stop (`orchestrator.py:779-782`).

## Runs

| run | instance | shows |
|---|---|---|
| `orch_safety` | 2 workers, 2 signals of 3 kinds, 2 faults, stream bound 1 | one decision at most, dead letters late and boundedly duplicated; implements `SignalLifecycle`, hence no silent loss |
| `orch_one_worker` | the deployed single worker, 2 faults, fair | two outcomes only after a fault; every signal settles |
| `orch_reclaim`, `orch_head_of_line` | 1 or 2 workers, 1 or 2 signals | violations, see below |
| `memory_safety` | 2 engines, 2 trades of 4 kinds, 1 failed cycle or replayed pipeline each, clock to 2 | nothing lost, promotions bounded by what failed, none of the dead |
| `memory_one_engine` | the deployed single engine, batch of 1, 2 failures, clock to 3, fair | implements `TradeLifecycle`; what left the set is promoted again only by a replay; every trade leaves the set |
| `matcher_safety` | 2 matchers, 2 orders, clock to 3 | filled once per matcher, no live order dropped, none of the dead filled, indexed hashes have a TTL |
| `matcher_one` | 1 matcher, 2 orders, fair | implements `TradeLifecycle`; every order leaves the index |
| `bucket_rate` | 3 callers, 2 of which ask for depth, 5 calls, capacity of 2 tokens, clock to 6, fair | rate bound with and without the unmetered cancellations; every caller is served |
| `algorithms` | grids with both sides of each threshold, win rates 27/32, 38/77, 37/75, 38/45 and others, an account that is no multiple of a lot's price; books of up to 3 levels; 7 bars in windows of 3 + 2; 5 orders in batches of 2 | `EvidenceDecides`, `SizeKeepsLimits`, `FillsAreFair`, `PublishedIsEarned`, `BatchesInOrder` |
| `services` | 2 symbols, 2 updates; 2 arbiters, 2 rows; 2 desks, 2 heartbeats; 2 consumers, 3 signals in a stream trimmed to 1; up to 2 failures, fair | `CacheFollowsFeed`, `PriorIsFresh`, `AlertsTimely`, `HandledOnceOrStuck`; `NothingWaitsForever` |
| `ledger` | 2 signals, one with a `signal_id` in its metadata, 1 cold boot, 1 fault, clock to 4 | `LockoutLasts`, `LostIsEngineOutage`, `RepairsDoLittleHarm` |

Most properties of `algorithms`, `services` and `ledger` are conjunctions of named parts; each part is
stated, with what it is about, in the module of its component. In `services` the
parts about one component's steps and states are one action property, and the
two about progress are `NothingWaitsForever`. `algorithms` and
`services` each hold several components that share no variable: `part`, chosen in
the initial state, says which one takes its steps, so that the run's states are
the sum of theirs and its properties say of each component what a run of its own
would say.

**Bounds.** Two actors are the least that race, and a third adds no new pair of
steps: no action looks at more than one other actor's effect. Two signals suffice
for a batch with a first and a second entry, a window that holds one and not the
other, and a trim that takes one. `MaxRetries` is the code's 3, so that a dead
letter needs a real sequence of claims. A batch or window of 1 or 2 makes the
limit bite. Two faults allow one inside the recovery from another. The clocks run
far enough for a trade to be authorized, live, expire and, in the matcher, lose
its hash to the TTL; for a cached prior to expire while another is fetched; for a
desk to fall silent, be reported and be reported again; for a trade to outlive the
reconciler's window. A book of three levels has a best, a partly consumed and an
untouched one; seven bars hold two windows, of which the second ends with the
last bar; five orders make two full batches and one that is not. In `TokenBucket`
the clock's bound holds only while nobody sleeps, so that no caller waits for time
that never comes. In `ledger` one fault is a loss of Redis, a failed call, a replayed
pipeline or a restart; the interplay of two is left to the components' own runs. Deadlock is
checked except where the bounds really end a behaviour: `bucket_rate` (clock and
calls), `algorithms` (functions return), `services` and `ledger` (clocks and
numbers of messages).

**Fairness.** `run()` of each worker is an endless loop whose except clauses lead
back into it, and docker-compose restarts the orchestration and memory workers: weak
fairness of a worker's steps, of the passing of time and of idle times. The matcher
and the connectors' tasks are loops of the same kind; nobody owes a restart of them,
so that only their steps are fair: of the matcher's scan, of the Bybit connector's
flush while it runs (not of its start), and of each legacy consumer while its task
runs; the event loop wakes every task that is ready (`TokenBucket`).
`EventuallyAttempted` is therefore a statement about behaviours in which some consumer
keeps running. Nothing is assumed of webhooks, prices, feeds, failures or
crashes, which are bounded in number but never owed.

**Violations.** Two runs check what a comment says of the code:

* `ReclaimedIsReprocessed`: "We XCLAIM them and re-process". They are not. This is
  also why `SingleDecision` holds: a repair must make the effects idempotent.
* `FailedIsDeadLettered`: an undecodable payload aborts every reclaim pass when it
  is parsed again for the dead letter, and all entries behind it wait for ever.

Two engines or matchers do not implement `TradeLifecycle`: one may purge what the
other is about to promote or fill. That is why the refinement is stated for one: of
the memory engine one is deployed, of the matcher docker-compose runs none.

## What the checks tell about the code

Facts that a reader of the code may not expect; where a property states one, it is
named.

* "Dead Letter Queue after 3 failed attempts" (`workers/orchestration_worker.py:11`):
  every XCLAIM counts as a delivery and nobody processes what it returns, so one
  attempt is enough (`DeadOnlyAfterRetries` is what holds).
* "We never exceed 45 msg/sec" (`broker_tradfi.py:250`): the burst and the refill of
  the same second add up (`RateBound`), and cancellations of market depth are not
  counted at all (`GatewayBound`).
* The memory engine's scan is said to fetch "entries with score > now (still alive)"
  (`workers/memory_worker.py:178`, and `:108`); its lower end is inclusive, so a trade
  that expires at the time of the cycle, and was added after its purge, is promoted.
  `NoPromotionOfTheDead` states what the code does.
* A registration of an order that fails before EXPIRE leaves a hash without the TTL
  that is to be the safety net, and without an index entry (`IndexedHasDeadline`).
* A desk without a history needs strong order flow, an aligned macro context and
  the right regime at once (`ColdSignalNeedsAll`). Up to a win rate of 6950/14087
  (49.34%) no evidence suffices, above 6950/8231 (84.44%) any does (`RecordDecides`).
  The clamps of the likelihood are never reached (`ClampNeverBinds`).
* Rejections are rows of the ledger and count as trades that were not won. A desk whose
  rows hold no win, and that has nothing under way, is locked out (`LockoutLasts`): for
  thirty days every signal is rejected, whatever its evidence, and each rejection is one
  more such row. Only a query that fails (the prior is then 0.5) or a cold boot that
  revives a rejected signal opens it again; what persists fills,
  `evaluate_and_persist`, has no caller in the repository.
* A trade may be promoted twice without any failed cycle, when the client replays a
  pipeline (`PromotionsBounded`, `GoneForGood`); each promotion may become a fill, and
  thus a row of the ledger, of its own (`FillsBounded`).
* A fill that improves on its target counts as a loss (`ImprovedIsLoss`).
* Authorized signals on `gold` have a macro factor but no routing target
  (`ColdUnroutedIsGold`); crypto shorts never meet head wind in the app, and
  `spot_crypto` has no macro factor there (`GenerationsAgree`).
* Without losses the win/loss ratio is 2.0 even without any fill; for an authorized
  signal the cap of 5% mostly decides alone (`CapDecides`); a Kelly fraction of zero
  still buys the minimum (`NoEdgeNoMoreThanMinimum`). Nothing calls the sizing.
* A cold boot restores the rejected signals of the last hour as trades and none of
  the authorized ones (`ReconstructsOnlyRejected`): those are in the ledger only
  after their fill. `scripts/launch_oniquant.sh` runs it before the services start.
* While an engine runs, an expired trade is purged long before the reconciler's
  grace period ends: it reports only what an outage of the engine left behind
  (`LostIsEngineOutage`).
* The legacy consumer says that unacknowledged signals are re-delivered; they stay
  pending for ever (`FailedIsStuck`), which is what makes `ExecutedAtMostOnce` true.
  What the stream's MAXLEN takes before a consumer has read it has neither verdict nor
  execution (`AckedIsDone` excepts it).
* The docstrings of both optimisers are stricter than their comparisons:
  "win rate > 69.5%" (`workers/wfo_engine.py:15`, `:202`) is `>=` in the code (`:257`,
  `:303`), "Sharpe decay < 40%" (`wfo_engine.py:292`) is `<=` (`:367`).
  `RobustEarned` states what the code accepts.
* The health monitor forgets a silent desk if the reset expires before the desk's next
  turn (`NeverForgotten`, under `ResetOutlasts`). With its 300 s that takes passes of
  112.5 s; two webhooks of 10 s each for six desks make 120 s, and the monitor's GET has
  no timeout.
* A Bybit delta replaces the book; that can only take fills of LIMIT orders away
  (`FragmentIsNoBetter`). A silent feed of a live connector is renewed for ever; the
  TTL is for a dead connector (`DeadFeedExpires`).
* No code of the repository writes a heartbeat, so the monitor alerts for nobody, nor
  the ledger's `posterior_prob`, so the calibration finds no rows.

## Proofs

TLAPS checks the theorems for all values of the constants, from the named
assumptions on them only: sizes and times are natural numbers, TTLs, batch sizes and
the bounds of streams are not zero, sets of actors are arbitrary (the orchestration workers finite, as
dead letters are counted per worker), the desks a list, the optimiser's grid a
finite set, `None` no value of the data. Every safety and action property of the
passing runs is a theorem.

Few of them are inductive. What each one needed:

* `OrchestrationWorker_proofs`. The run checks `NoSilentLoss` as the guard of `Settle` in
  `SignalLifecycle`; it is a theorem of its own too. For `SingleDecision`, `DecisionInv` says that an
  undecided signal in a batch belongs to one worker and has not been attempted,
  and that the cursor separates what may still be read. `NoSilentLoss` and
  `DeadOnlyAfterRetries` rest on `AckInv`: at each control point before an XACK the
  outcome is written, and the delivery count of a snapshot entry has not fallen.
  For `DuplicatesBounded`, `DuplicateInv` charges each dead letter of a pending
  signal to a worker about to acknowledge it or to a fault (`Acking`), and, once
  the signal is not pending, counts the workers that may still add one (`Adding`).
  For `OneWorkerOneOutcome`, `AloneInv` says that what a lone worker holds is still
  pending (`HoldsPending`) and that an outcome of a pending signal is being
  acknowledged or was cut off by a fault (`WrittenCharged`). The refinement of
  `SignalLifecycle` needs `AckInv` and `DecisionInv` only: each command is one step of
  it (`DeliverHandsOut`, `AcknowledgeSettles`, `DeadLetterBuries`, `DecisionDecides`)
  or a stutter.
* `TradeMemory_proofs`. `MemoryInv` says of each engine that its hits were tracked
  and alive as its cycle began and are in the stream once out of the queue
  (`Orderly`), and that as long as it may still promote a trade it has done so only
  in cycles that failed and pipelines that timed out (`Budget`). `OwnsPending` adds, for
  one engine, that what it holds is still in the set, or was promoted before its
  pipeline was replayed; the refinement of `TradeLifecycle` follows step by step.
* `SyntheticMatcher_proofs`. `MatcherInv` ties the three: a filled order has no
  hash, an order in hand to be filled was not filled by that matcher, a missing
  hash or a purge in progress means filled or expired. For the refinement, `Owns`
  adds for one matcher that what it has in hand or has still to look at is indexed.
* `TokenBucket_proofs`. `RateBound` follows from an invariant that relates, for
  every message sent, what is in the bucket and what has been taken since.
* `IBGateway_proofs`. The limiter's properties hold among the calls of its user, by
  the same invariant. For `GatewayBound`, `CancelInv` attributes each cancellation to a
  caller such that two of the same caller are a wait apart. Those in an interval then
  map one to one to pairs of a caller and a multiple of the wait; their number
  follows by a pigeonhole argument (`CancelledWithin` counts it).
* `Services_proofs`. Each service takes its own steps or none (`ServicesRun`), so its
  invariant is proved from its own `Next`. `PriorInv`: a cached rate counts every row
  that was there a fetch before it was set, and an answer no fewer than its floor and
  the rows at its start. `FeedInv`: books get older from the feed's memory to the
  pipeline to Redis, and a connector that is down has nothing left to write.
  `HealthInv`: while no pass fails, the pass before this one found every heartbeat
  young enough or reset it, those that this pass has visited are young now, and
  nothing is reported twice for one heartbeat. `NeverForgotten` needs, as it says, that
  a reset outlasts a threshold, a period and two passes; the other parts need no relation
  between the durations. `LegacyInv`: a signal in hand is pending, in one pair of hands,
  once, and has come as far as its consumer's control point says; what was trimmed and
  not delivered is what nobody will read.
* `SignalLedger_proofs`. `Purged` (no trade is pending that was dead when an engine
  last purged) and `Outage` give `LostIsEngineOutage`. `LockoutLasts` follows from the
  types and one lemma for each of the two steps that could end it (`LockedEvaluate`: no
  prefix of the ledger that a cache may know holds a win; `LockedReject`).
  `RepairsDoLittleHarm` takes two accounts that no step overdraws: `Revived`, of the
  fills a signal has and the promotions ahead of it, which a replayed pipeline, a broken
  one and a second delivery charge to their fault, and `Reported`, of the reports
  made, those this pass may make, and those that passes to come may make.
* `Algorithms_proofs`. The verdict and the size are what the functions say
  (`VerdictDecided`, `SizeDecided`), so `EvidenceDecides` is arithmetic over the odds, for
  any fraction as win rate, and `SizeKeepsLimits` over quotients and the rounding of
  halves to even, for any account. For
  `BatchesInOrder`, `BatchInv` says that whole batches have been sent, one response for
  each. For `PublishedIsEarned`, `WindowsInv` says that the validations of the windows
  behind the one at hand follow each other without overlap, and that what is
  published is that of the last robust one. For `FillsAreFair`, on a book of any
  length:
  * Induction over the book is done with sets: one that holds 0 and, with each number
    below the bound, the next one, holds all of them (`UpTo`). The functions defined by
    recursion in `VolumeWalk` exist because of it (`RecursionExists`), and a sum over
    levels is a function of partial sums.
  * A ladder holds the levels of the facing side, each once, sorted by price
    (`LadderIs`); `Place` counts those ahead of a level, earlier ones first where
    prices are equal, as Python's sort is stable.
  * Both walks take, best level first, the smaller of what is required and what is
    offered within the limit, at the cost that this implies (`FillingExists`,
    `OutcomesAre`).
  * Nothing taken best first costs more than another choice of as much (`Exchange`),
    which compares it with a larger order and with a part of the book.
  * The root matcher stops at the least depth (`DepthIs`).

The refinement of `SignalLifecycle` holds for any number of workers, those of
`TradeLifecycle` for one engine and one matcher;
`GoneForGood` and `OneWorkerOneOutcome` say in their statements that there is one.

Only model-checked:

* the liveness properties (`EventuallySettled`, `EventuallyLeaves`,
  `EventuallyUnindexed`, `EventuallyGranted`, and `NothingWaitsForever` with its parts
  `EventuallyCached` and `EventuallyAttempted`): they need fairness and ENABLED, which
  the prover does not treat;
* the violations, which are about one behaviour each.

## Not modelled

* Configuration, logging, the dashboard, HTTP start-up, SQL and Redis themselves:
  they keep no protocol state of their own, or are external.
* The floating-point indicators of `app/quant/alpha_stack.py` and `analytics.py`, and the
  VectorBT numerics of both optimisers: numerics that TLC cannot enumerate usefully.
* The overlapping splits of the older optimiser (`build_wfo_splits`), whose windows
  validate the same bars twice by construction.
* The calibration worker: it selects rows by a column of `signal_ledger` that
  nothing writes, and the key that it sets has no reader. The warm-up worker: reads and SETs without a guard.
* A crash of the health monitor between an alert and its reset: it would alert once more
  when it starts again.
* Single orders, balances, positions and the egress-IP checks of both brokers: one call
  each, no state.
* `insert_signals_batch`, `store_signal` of the older memory engine and `evaluate_batch`
  of the older orchestrator: no caller.
* The rounding of floats. Where the code compares floats, the exact comparison differs
  from it only at values that it itself produces by rounding.

## Plan

1. Done: the core of the pipeline, `OrchestrationWorker`, `TradeMemory`,
   `SyntheticMatcher`, `TokenBucket`, with proofs, and the lifecycles above three of
   them.
2. Done: the algorithms (`Arbiter`, `Sizing`, `VolumeWalk`, `WalkForward`,
   `BatchOrders`), the services (`BookFeed`, `PriorCache`, `HealthMonitor`,
   `LegacyConsumer`), the composition around the ledger (`SignalLedger`) and
   `IBGateway`.
3. Done: theorems for the safety and action properties of all passing runs, and the
   refinements of `SignalLifecycle` and `TradeLifecycle`.
4. Next: both lifecycles composed, from the stream to the match stream, in one
   abstract specification of what a signal may become.
