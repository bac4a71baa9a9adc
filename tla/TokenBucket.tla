----------------------------- MODULE TokenBucket -----------------------------
(***************************************************************************)
(* The rate limiter of the IBKR connector: TokenBucketLimiter.acquire of   *)
(* src/app/services/broker_tradfi.py and LeakyBucketLimiter.acquire of     *)
(* src/broker_tradfi.py, the same algorithm.  Callers queue for an         *)
(* asyncio.Lock, which is first come first served; its holder refills the  *)
(* bucket from the monotonic clock, sleeps with the lock held while the    *)
(* bucket lacks a token, takes one and sends its message.                  *)
(* Time is counted in the ticks in which a unit flows into the bucket, and *)
(* a token is Cost units: MaxRate is one token per Cost ticks.             *)
(***************************************************************************)
EXTENDS Integers, Sequences

CONSTANTS
  Callers,    \* tasks that call the gateway
  MaxTokens,  \* max_tokens (45): the capacity of the bucket
  Cost,       \* units per token: the resolution of time
  MaxCalls,   \* bound: calls ever made
  LastCall,   \* bound: no call starts after this time
  MaxTime     \* bound: the clock stops there while nobody sleeps

ASSUME BucketAssumption == MaxTokens \in Nat \ {0} /\ Cost \in Nat \ {0}
ASSUME BoundsAssumption == {MaxCalls, LastCall, MaxTime} \subseteq Nat

VARIABLES
  clock,       \* time.monotonic()
  tokens,      \* _tokens, in units
  lastRefill,  \* _last_refill
  queue,       \* tasks in acquire(); the first one holds _lock
  wake,        \* when the holder's sleep ends, 0 if it does not sleep
  sent         \* history: when each message was sent

vars == <<clock, tokens, lastRefill, queue, wake, sent>>

Capacity == MaxTokens * Cost

TypeOK ==
  /\ clock \in Nat
  /\ tokens \in 0..Capacity
  /\ lastRefill \in 0..clock
  /\ queue \in Seq(Callers)
  /\ wake \in Nat
  /\ sent \in Seq(0..clock)

\* The bucket starts full.
Init ==
  /\ clock = 0 /\ lastRefill = 0
  /\ tokens = Capacity
  /\ queue = <<>> /\ wake = 0
  /\ sent = <<>>

-----------------------------------------------------------------------------
Tick ==
  /\ clock < MaxTime \/ clock < wake
  /\ clock' = clock + 1
  /\ UNCHANGED <<tokens, lastRefill, queue, wake, sent>>

\* A task calls acquire() and waits for the lock.
Call(c) ==
  /\ clock <= LastCall /\ Len(sent) + Len(queue) < MaxCalls
  /\ \A i \in 1..Len(queue) : queue[i] # c
  /\ queue' = Append(queue, c)
  /\ UNCHANGED <<clock, tokens, lastRefill, wake, sent>>

\* Mutated form: no min() with max_tokens.
RefilledUncapped == tokens + (clock - lastRefill)

\* What the bucket holds once the time since the last refill is credited.
Refilled ==
  LET credited == tokens + (clock - lastRefill)
  IN  IF credited > Capacity THEN Capacity ELSE credited

\* The holder takes a token, releases the lock and sends.
Grant ==
  /\ tokens' = Refilled - Cost
  /\ queue' = Tail(queue)
  /\ sent' = Append(sent, clock)
  /\ wake' = 0

\* The holder finds a token ...
AcquireAtOnce ==
  /\ queue # <<>> /\ wake = 0 /\ Refilled >= Cost
  /\ Grant /\ lastRefill' = clock
  /\ UNCHANGED clock

\* Mutated form: _last_refill is not set before the sleep, whose start is then
\* credited twice.
SleepUncounted ==
  /\ queue # <<>> /\ wake = 0 /\ Refilled < Cost
  /\ tokens' = Refilled
  /\ wake' = clock + (Cost - Refilled)
  /\ UNCHANGED <<clock, lastRefill, queue, sent>>

\* ... or goes to sleep until there must be one, and keeps the lock.
Sleep ==
  /\ queue # <<>> /\ wake = 0 /\ Refilled < Cost
  /\ tokens' = Refilled
  /\ lastRefill' = clock
  /\ wake' = clock + (Cost - Refilled)
  /\ UNCHANGED <<clock, queue, sent>>

\* Mutated form: only a sleep of exactly the time asked for ends.
WakeUpOnTime ==
  /\ wake # 0 /\ clock = wake
  /\ Grant /\ lastRefill' = clock
  /\ UNCHANGED clock

\* asyncio.sleep lasts at least as long as asked, and possibly longer.
WakeUp ==
  /\ wake # 0 /\ clock >= wake
  /\ Grant /\ lastRefill' = clock
  /\ UNCHANGED clock

-----------------------------------------------------------------------------
Next ==
  \/ Tick
  \/ \E c \in Callers : Call(c)
  \/ AcquireAtOnce \/ Sleep \/ WakeUp

Spec == Init /\ [][Next]_vars

\* Time passes and the event loop runs every task that is ready.
Fairness == WF_vars(Tick) /\ WF_vars(AcquireAtOnce \/ Sleep \/ WakeUp)

FairSpec == Spec /\ Fairness

-----------------------------------------------------------------------------
(* Properties *)

\* What the limiter guarantees of the messages it lets through: between any two
\* of them, both included, no more than a full bucket and what flowed in since.
RateBound ==
  \A i, j \in 1..Len(sent) :
    i <= j => ((j - i) + 1) * Cost <= Capacity + (sent[j] - sent[i])

\* Every call is granted in the end, however many tasks are ahead of it and
\* although the holder sleeps with the lock: nobody waits for ever.
Waits(c) == \E i \in 1..Len(queue) : queue[i] = c

EventuallyGranted == \A c \in Callers : Waits(c) ~> ~Waits(c)
==============================================================================
