--------------------------- MODULE SyntheticMatcher ---------------------------
(***************************************************************************)
(* Simulated orders: register_simulated_order of the broker connectors     *)
(* writes them to Redis, and the SyntheticMatcherWorker of src/matcher.py  *)
(* polls, purges and fills them.  An order is a hash of its own and an     *)
(* entry of the set oniquant:pending_match:index; the registrar writes     *)
(* them, and the hash's TTL, with three commands, the purge removes them   *)
(* with two, and a fill with one MULTI/EXEC.  One action is one command.   *)
(***************************************************************************)
EXTENDS Naturals

CONSTANTS
  Matchers,     \* matcher workers
  Kinds,        \* kinds of order that may be registered
  Ttl,          \* ttl_seconds (300)
  Grace,        \* seconds the hash outlives the order (60)
  MaxOrders,    \* bound: orders ever registered
  LastOrder,    \* bound: no registration starts after this time
  MaxTime,      \* bound: the clock stops there
  MaxFailures   \* bound: failed scans per matcher

\* A "priceless" order is a LIMIT order without limit_price (its default is
\* None), which no price can be compared with.
AllKinds == {"sound", "priceless"}

ASSUME KindsAssumption == Kinds \subseteq AllKinds
ASSUME TtlAssumption == Ttl \in Nat /\ Grace \in Nat \ {0}
ASSUME BoundsAssumption ==
  {MaxOrders, LastOrder, MaxTime, MaxFailures} \subseteq Nat

VARIABLES
  clock,      \* time.time(), and the time in Redis
  kind,       \* kind of each order
  expiresAt,  \* expires_at of each order
  registrar,  \* how far register_simulated_order got with each order
  stored,     \* orders whose hash was written and not deleted
  deadline,   \* when Redis drops each hash, 0 as long as it has no TTL
  index,      \* members of oniquant:pending_match:index
  matcher,    \* each matcher's control point and local variables
  fills,      \* entries of oniquant:active_executions per matcher and order
  failures    \* history: failed scans of each matcher

orderVars == <<kind, expiresAt>>
redisVars == <<stored, deadline, index>>
vars == <<clock, orderVars, registrar, redisVars, matcher, fills, failures>>

Orders == 1..MaxOrders
Times  == 0..MaxTime

RegistrarPhases == {"absent", "hset", "expire", "sadd", "registered", "failed"}

MatcherState ==
  [pc : {"idle", "list", "next", "delete", "unindex", "quote", "fill"},
   now : Times,            \* the clock as the scan began
   todo : SUBSET Orders,   \* members of the index still to look at
   cur : Orders \union {0}]

Idle == [pc |-> "idle", now |-> 0, todo |-> {}, cur |-> 0]

TypeOK ==
  /\ clock \in Times
  /\ kind \in [Orders -> AllKinds]
  /\ expiresAt \in [Orders -> Nat]
  /\ registrar \in [Orders -> RegistrarPhases]
  /\ stored \in SUBSET {o \in Orders : registrar[o] \notin {"absent", "hset"}}
  /\ index \in SUBSET {o \in Orders : registrar[o] = "registered"}
  /\ deadline \in [Orders -> Nat]
  /\ matcher \in [Matchers -> MatcherState]
  /\ fills \in [Matchers -> [Orders -> Nat]]
  /\ failures \in [Matchers -> 0..MaxFailures]

Init ==
  /\ clock = 0
  /\ kind = [o \in Orders |-> "sound"]
  /\ expiresAt = [o \in Orders |-> 0]
  /\ registrar = [o \in Orders |-> "absent"]
  /\ stored = {} /\ index = {}
  /\ deadline = [o \in Orders |-> 0]
  /\ matcher = [m \in Matchers |-> Idle]
  /\ fills = [m \in Matchers |-> [o \in Orders |-> 0]]
  /\ failures = [m \in Matchers |-> 0]

Tick ==
  /\ clock < MaxTime
  /\ clock' = clock + 1
  /\ UNCHANGED <<orderVars, registrar, redisVars, matcher, fills, failures>>

-----------------------------------------------------------------------------
(* register_simulated_order *)

\* The payload is built, with its time of expiry.
Register(o, k) ==
  /\ registrar[o] = "absent" /\ clock <= LastOrder
  /\ kind' = [kind EXCEPT ![o] = k]
  /\ expiresAt' = [expiresAt EXCEPT ![o] = clock + Ttl]
  /\ registrar' = [registrar EXCEPT ![o] = "hset"]
  /\ UNCHANGED <<clock, redisVars, matcher, fills, failures>>

\* HSET: the hash has no TTL yet.
StoreOrder(o) ==
  /\ registrar[o] = "hset"
  /\ stored' = stored \union {o}
  /\ registrar' = [registrar EXCEPT ![o] = "expire"]
  /\ UNCHANGED <<clock, orderVars, deadline, index, matcher, fills, failures>>

\* EXPIRE.
SetDeadline(o) ==
  /\ registrar[o] = "expire"
  /\ deadline' = [deadline EXCEPT ![o] = clock + Ttl + Grace]
  /\ registrar' = [registrar EXCEPT ![o] = "sadd"]
  /\ UNCHANGED <<clock, orderVars, stored, index, matcher, fills, failures>>

\* Mutated form: a failed EXPIRE does not keep the order from the index.
IndexOrderEarly(o) ==
  /\ registrar[o] \in {"expire", "sadd"}
  /\ index' = index \union {o}
  /\ registrar' = [registrar EXCEPT ![o] = "registered"]
  /\ UNCHANGED <<clock, orderVars, stored, deadline, matcher, fills, failures>>

\* Mutated form: SADD is repeated, the registration does not end.
IndexOrderAgain(o) ==
  /\ registrar[o] = "sadd"
  /\ index' = index \union {o}
  /\ UNCHANGED <<clock, orderVars, registrar, stored, deadline, matcher, fills, failures>>

\* SADD: from here on the matchers see the order.
IndexOrder(o) ==
  /\ registrar[o] = "sadd"
  /\ index' = index \union {o}
  /\ registrar' = [registrar EXCEPT ![o] = "registered"]
  /\ UNCHANGED <<clock, orderVars, stored, deadline, matcher, fills, failures>>

\* A command raises, or the process dies: nothing is undone.
RegistrationFails(o) ==
  /\ registrar[o] \in {"hset", "expire", "sadd"}
  /\ registrar' = [registrar EXCEPT ![o] = "failed"]
  /\ UNCHANGED <<clock, orderVars, redisVars, matcher, fills, failures>>

-----------------------------------------------------------------------------
(* One scan: _process_pending_orders and evaluate_market_fill *)

\* Redis answers as if the hash did not exist once its deadline has passed.
Held(o) == o \in stored /\ (deadline[o] = 0 \/ clock <= deadline[o])

BeginScan(m) ==
  /\ matcher[m].pc = "idle"
  /\ matcher' = [matcher EXCEPT ![m].pc = "list", ![m].now = clock]
  /\ UNCHANGED <<clock, orderVars, registrar, redisVars, fills, failures>>

\* SMEMBERS of the index.
ListOrders(m) ==
  /\ matcher[m].pc = "list"
  /\ matcher' = [matcher EXCEPT ![m].pc = "next", ![m].todo = index]
  /\ UNCHANGED <<clock, orderVars, registrar, redisVars, fills, failures>>

\* Mutated form: the bound of the comparison is included.
ExpiredInclusive(m, o) == matcher[m].now >= expiresAt[o]

\* Mutated form: the grace of the hash counts as the order's.
ExpiredAfterGrace(m, o) == matcher[m].now > expiresAt[o] + Grace

\* The time is the scan's, not that of the comparison.
Expired(m, o) == matcher[m].now > expiresAt[o]

\* Mutated form: an order whose hash is gone is skipped.
AfterFetchSkips(m, o) ==
  IF ~Held(o) THEN "next" ELSE IF Expired(m, o) THEN "delete" ELSE "quote"

\* A missing hash is cleaned out of the index, an expired order is purged.
AfterFetch(m, o) ==
  IF ~Held(o) THEN "unindex" ELSE IF Expired(m, o) THEN "delete" ELSE "quote"

\* HGET of the orders of the snapshot, in no particular order.
FetchOrder(m, o) ==
  /\ matcher[m].pc = "next" /\ o \in matcher[m].todo
  /\ matcher' = [matcher EXCEPT ![m].pc = AfterFetch(m, o), ![m].cur = o,
                                ![m].todo = @ \ {o}]
  /\ UNCHANGED <<clock, orderVars, registrar, redisVars, fills, failures>>

\* DEL of an expired order's hash ...
DeleteOrder(m) ==
  /\ matcher[m].pc = "delete"
  /\ stored' = stored \ {matcher[m].cur}
  /\ matcher' = [matcher EXCEPT ![m].pc = "unindex"]
  /\ UNCHANGED <<clock, orderVars, registrar, deadline, index, fills, failures>>

\* ... and SREM, in a command of its own.
UnindexOrder(m) ==
  /\ matcher[m].pc = "unindex"
  /\ index' = index \ {matcher[m].cur}
  /\ matcher' = [matcher EXCEPT ![m].pc = "next", ![m].cur = 0]
  /\ UNCHANGED <<clock, orderVars, registrar, stored, deadline, fills, failures>>

\* Mutated form: the order is taken out before the fill is written.
QuoteOrderTakes(m) ==
  /\ matcher[m].pc = "quote"
  /\ \/ /\ matcher' = [matcher EXCEPT ![m].pc = "next", ![m].cur = 0]
        /\ UNCHANGED redisVars
     \/ /\ kind[matcher[m].cur] = "sound"
        /\ matcher' = [matcher EXCEPT ![m].pc = "fill"]
        /\ stored' = stored \ {matcher[m].cur}
        /\ index' = index \ {matcher[m].cur}
        /\ UNCHANGED deadline
  /\ UNCHANGED <<clock, orderVars, registrar, fills, failures>>

\* GET of the cached book and the evaluation.  Without depth for the order it
\* stays; with it, comparing a missing price raises out of the whole scan.
QuoteOrder(m) ==
  /\ matcher[m].pc = "quote"
  /\ \/ matcher' = [matcher EXCEPT ![m].pc = "next", ![m].cur = 0]
     \/ /\ kind[matcher[m].cur] = "sound"
        /\ matcher' = [matcher EXCEPT ![m].pc = "fill"]
     \/ /\ kind[matcher[m].cur] = "priceless"
        /\ matcher' = [matcher EXCEPT ![m] = Idle]
  /\ UNCHANGED <<clock, orderVars, registrar, redisVars, fills, failures>>

\* Mutated form: the order is not removed.
FillOrderStays(m) ==
  /\ matcher[m].pc = "fill"
  /\ fills' = [fills EXCEPT ![m][matcher[m].cur] = @ + 1]
  /\ matcher' = [matcher EXCEPT ![m].pc = "next", ![m].cur = 0]
  /\ UNCHANGED <<clock, orderVars, registrar, redisVars, failures>>

\* MULTI/EXEC: XADD to active_executions, DEL, SREM.  Nothing checks that the
\* order is still there.
FillOrder(m) ==
  /\ matcher[m].pc = "fill"
  /\ fills' = [fills EXCEPT ![m][matcher[m].cur] = @ + 1]
  /\ stored' = stored \ {matcher[m].cur}
  /\ index' = index \ {matcher[m].cur}
  /\ matcher' = [matcher EXCEPT ![m].pc = "next", ![m].cur = 0]
  /\ UNCHANGED <<clock, orderVars, registrar, deadline, failures>>

EndScan(m) ==
  /\ matcher[m].pc = "next" /\ matcher[m].todo = {}
  /\ matcher' = [matcher EXCEPT ![m] = Idle]
  /\ UNCHANGED <<clock, orderVars, registrar, redisVars, fills, failures>>

\* The process dies or a command raises; run() starts another scan.
ScanFails(m) ==
  /\ matcher[m].pc # "idle" /\ failures[m] < MaxFailures
  /\ failures' = [failures EXCEPT ![m] = @ + 1]
  /\ matcher' = [matcher EXCEPT ![m] = Idle]
  /\ UNCHANGED <<clock, orderVars, registrar, redisVars, fills>>

-----------------------------------------------------------------------------
RegistrarStep(o) ==
  \/ \E k \in Kinds : Register(o, k)
  \/ StoreOrder(o) \/ SetDeadline(o) \/ IndexOrder(o) \/ RegistrationFails(o)

MatcherStep(m) ==
  \/ BeginScan(m) \/ ListOrders(m)
  \/ \E o \in matcher[m].todo : FetchOrder(m, o)
  \/ DeleteOrder(m) \/ UnindexOrder(m) \/ QuoteOrder(m) \/ FillOrder(m)
  \/ EndScan(m)

Next ==
  \/ Tick
  \/ \E o \in Orders : RegistrarStep(o)
  \/ \E m \in Matchers : MatcherStep(m) \/ ScanFails(m)

Spec == Init /\ [][Next]_vars

\* run() loops forever with an except clause around each scan, and time passes.
FairSpec ==
  Spec /\ WF_vars(Tick) /\ \A m \in Matchers : WF_vars(MatcherStep(m))

-----------------------------------------------------------------------------
(* Properties *)

Filled(o) == \E m \in Matchers : fills[m][o] > 0

\* A matcher fills an order at most once, whatever fails, because the XADD and
\* the removal are one transaction: no failure falls between them.  (Two
\* matchers may each fill it: the transaction watches nothing.)
FilledOncePerMatcher ==
  \A m \in Matchers, o \in Orders : fills[m][o] <= 1

\* A registered order leaves the index only filled or after its expiry, however
\* purges are cut, raced or overtaken by the hash's own TTL: the TTL, set later
\* and longer, never ends first.
NoLiveOrderDropped ==
  \A o \in Orders :
    registrar[o] = "registered" =>
      o \in index \/ Filled(o) \/ expiresAt[o] < clock

\* A fill may come after the order has expired, but not if it had already
\* expired as the scan began, and never without a price.
FillsAlive ==
  \A m \in Matchers, o \in Orders :
    fills'[m][o] # fills[m][o] =>
      kind[o] = "sound" /\ matcher[m].now <= expiresAt[o]

NoFillOfTheDead == [][FillsAlive]_vars

\* What the matchers can see cannot stay for ever even if they all die: an
\* indexed order's hash has a TTL.
IndexedHasDeadline ==
  \A o \in index : o \in stored => deadline[o] > 0

\* Every registered order leaves the index, although an order without a price
\* ends every scan that finds depth for it: it is purged itself in the end.
EventuallyUnindexed ==
  \A o \in Orders :
    registrar[o] = "registered" ~> (registrar[o] = "registered" /\ o \notin index)

\* Seen from outside, one matcher treats registered orders as TradeLifecycle
\* says: they wait, and are settled once and for good.
StatusOf(o) ==
  IF registrar[o] # "registered" THEN "absent"
  ELSE IF o \in index THEN "pending"
  ELSE IF Filled(o) THEN "promoted" ELSE "expired"

Status == [o \in Orders |-> StatusOf(o)]

KnownExpiry ==
  [o \in Orders |-> IF registrar[o] = "registered" THEN expiresAt[o] ELSE 0]

Lifecycle == INSTANCE TradeLifecycle WITH
  Trades <- Orders, Times <- 0..(MaxTime + Ttl),
  expiry <- KnownExpiry, status <- Status

ImplementsLifecycle == Lifecycle!Spec
==============================================================================
