-------------------------- MODULE TokenBucket_proofs --------------------------
(* Theorems about TokenBucket, for every capacity, cost and set of callers. *)
EXTENDS TokenBucket, TLAPS

LEMMA Sizes ==
  /\ MaxTokens \in Nat /\ Cost \in Nat /\ Cost > 0
  /\ Capacity \in Nat /\ Cost <= Capacity
  /\ MaxCalls \in Nat /\ LastCall \in Nat /\ MaxTime \in Nat
<1>1. MaxTokens \in Nat /\ Cost \in Nat /\ Cost > 0 /\ MaxTokens >= 1
  BY BucketAssumption
<1>2. Capacity \in Nat /\ Cost <= Capacity
  BY <1>1 DEF Capacity
<1> QED
  BY <1>1, <1>2, BoundsAssumption

LEMMA Distribute == \A k \in Int : (k + 1) * Cost = k * Cost + Cost
BY Sizes

LEMMA Products == \A k \in Int : k * Cost \in Int
BY Sizes

-----------------------------------------------------------------------------
(* Type correctness, with what a sleeper waits for *)

\* The holder sleeps exactly for what the bucket lacks of a token, so that there
\* is one when it wakes.
SleepsForDeficit ==
  wake # 0 => queue # <<>> /\ tokens < Cost /\ wake = lastRefill + (Cost - tokens)

BucketType == TypeOK /\ SleepsForDeficit

LEMMA RefilledType ==
  TypeOK => /\ Refilled \in 0..Capacity
            /\ tokens <= Refilled /\ Refilled <= tokens + (clock - lastRefill)
<1> SUFFICES ASSUME TypeOK
             PROVE  /\ Refilled \in 0..Capacity
                    /\ tokens <= Refilled
                    /\ Refilled <= tokens + (clock - lastRefill)
  OBVIOUS
<1>1. /\ tokens \in Nat /\ tokens <= Capacity /\ clock \in Nat
      /\ lastRefill \in Nat /\ lastRefill <= clock
  BY Sizes DEF TypeOK
<1> QED
  BY <1>1, Sizes DEF Refilled

\* When the sleep is over the bucket holds a token.
LEMMA AwakeWithToken == BucketType /\ WakeUp => Refilled >= Cost
<1> SUFFICES ASSUME BucketType, WakeUp PROVE Refilled >= Cost
  OBVIOUS
<1>1. /\ tokens \in Nat /\ clock \in Nat /\ lastRefill \in Nat
      /\ clock >= lastRefill + (Cost - tokens)
  BY Sizes DEF BucketType, TypeOK, SleepsForDeficit, WakeUp
<1> QED
  BY <1>1, Sizes DEF Refilled

LEMMA BucketTypeInit == Init => BucketType
BY Sizes DEF Init, BucketType, TypeOK, SleepsForDeficit

LEMMA BucketTypeNext == BucketType /\ [Next]_vars => BucketType'
<1> SUFFICES ASSUME BucketType, [Next]_vars PROVE BucketType'
  OBVIOUS
<1> USE DEF BucketType
<1>0. clock \in Nat /\ \A n \in 0..clock : n \in 0..(clock + 1)
  BY Sizes DEF TypeOK
<1>1. CASE Tick
  <2>1. clock' \in Nat /\ lastRefill' \in 0..clock' /\ sent' \in Seq(0..clock')
    BY <1>0, <1>1, Sizes DEF Tick, TypeOK
  <2> QED
    BY <1>1, <2>1 DEF Tick, TypeOK, SleepsForDeficit
<1>2. ASSUME NEW c \in Callers, Call(c) PROVE BucketType'
  BY <1>2 DEF Call, TypeOK, SleepsForDeficit
<1>3. ASSUME queue # <<>>, Grant, lastRefill' = clock, UNCHANGED clock,
             Refilled >= Cost
      PROVE  BucketType'
  <2>1. tokens' \in 0..Capacity
    BY <1>3, RefilledType, Sizes DEF Grant
  <2>2. queue' \in Seq(Callers) /\ sent' \in Seq(0..clock)
    BY <1>0, <1>3 DEF Grant, TypeOK
  <2> QED
    BY <1>0, <1>3, <2>1, <2>2 DEF Grant, TypeOK, SleepsForDeficit
<1>4. CASE AcquireAtOnce
  BY <1>3, <1>4 DEF AcquireAtOnce
<1>5. CASE Sleep
  <2>1. wake' \in Nat
    BY <1>0, <1>5, RefilledType, Sizes DEF Sleep
  <2> QED
    BY <1>0, <1>5, <2>1, RefilledType DEF Sleep, TypeOK, SleepsForDeficit
<1>6. CASE WakeUp
  BY <1>3, <1>6, AwakeWithToken DEF WakeUp, SleepsForDeficit
<1>7. CASE UNCHANGED vars
  BY <1>7 DEF vars, TypeOK, SleepsForDeficit
<1> QED
  BY <1>1, <1>2, <1>4, <1>5, <1>6, <1>7 DEF Next

LEMMA BucketTypeSafety == Spec => []BucketType
BY BucketTypeInit, BucketTypeNext, PTL DEF Spec

\* The bucket's content stays within its capacity, every sleep within reach.
THEOREM TypeCorrect == Spec => []TypeOK
BY BucketTypeSafety, PTL DEF BucketType

-----------------------------------------------------------------------------
(* The rate *)

\* The credit left after the messages since the i-th: what they cost, and what
\* the bucket still holds, never exceed a full bucket and the inflow.
Credit ==
  \A i \in 1..Len(sent) :
    /\ sent[i] <= lastRefill
    /\ ((Len(sent) - i) + 1) * Cost + tokens <= Capacity + (lastRefill - sent[i])

RateInv == Credit /\ RateBound

LEMMA RateInit == Init => RateInv
BY DEF Init, RateInv, Credit, RateBound

\* Crediting the time that has passed keeps the credit.
LEMMA RefillKeepsCredit ==
  ASSUME TypeOK, Credit, NEW i \in 1..Len(sent)
  PROVE  ((Len(sent) - i) + 1) * Cost + Refilled <= Capacity + (clock - sent[i])
<1>1. /\ tokens \in Nat /\ clock \in Nat /\ lastRefill \in Nat /\ sent[i] \in Nat
      /\ Len(sent) \in Nat /\ i \in Nat
  BY Sizes DEF TypeOK
<1>2. Refilled \in Nat /\ Refilled <= tokens + (clock - lastRefill)
  BY RefilledType, Sizes
<1>3. ((Len(sent) - i) + 1) * Cost \in Int
  BY <1>1, Products
<1> QED
  BY <1>1, <1>2, <1>3, Sizes DEF Credit

\* A grant pays for its message out of that credit.
LEMMA GrantKeepsRate ==
  ASSUME TypeOK, RateInv, Grant, Refilled >= Cost, lastRefill' = clock,
         UNCHANGED clock
  PROVE  RateInv'
<1> DEFINE n == Len(sent)
<1>0. n \in Nat /\ clock \in Nat /\ \A i \in 1..n : sent[i] \in Nat /\ sent[i] <= clock
  BY DEF TypeOK
<1>1. /\ Len(sent') = n + 1 /\ sent'[n + 1] = clock
      /\ \A i \in 1..n : sent'[i] = sent[i]
  BY DEF Grant, TypeOK
<1>2. Refilled \in Nat /\ Refilled <= Capacity /\ tokens' = Refilled - Cost
  BY RefilledType, Sizes DEF Grant
<1>3. ASSUME NEW i \in 1..n
      PROVE  /\ ((n + 1 - i) + 1) * Cost \in Int
             /\ ((n + 1 - i) + 1) * Cost + tokens' <= Capacity + (clock - sent[i])
             /\ ((n + 1 - i) + 1) * Cost <= Capacity + (clock - sent[i])
  <2>1. ((n - i) + 1) * Cost + Refilled <= Capacity + (clock - sent[i])
    BY RefillKeepsCredit DEF RateInv
  <2>2. ((n + 1 - i) + 1) * Cost = ((n - i) + 1) * Cost + Cost
    <3>1. (n - i) + 1 \in Int /\ (n + 1 - i) + 1 = ((n - i) + 1) + 1
      BY <1>0
    <3> QED
      BY <3>1, Distribute
  <2>3. ((n - i) + 1) * Cost \in Int
    BY <1>0, Products
  <2> QED
    BY <1>0, <1>2, <2>1, <2>2, <2>3, Sizes
<1>4. /\ ((n + 1) - (n + 1)) + 1 = 1 /\ 1 * Cost = Cost
      /\ Cost + tokens' <= Capacity
  BY <1>0, <1>2, Sizes
<1>5. Credit'
  <2> SUFFICES ASSUME NEW i \in 1..(n + 1)
               PROVE  /\ sent'[i] <= clock
                      /\ ((n + 1 - i) + 1) * Cost + tokens'
                           <= Capacity + (clock - sent'[i])
    BY <1>1 DEF Credit
  <2>1. CASE i \in 1..n
    BY <1>0, <1>1, <1>3, <2>1
  <2>2. CASE i = n + 1
    BY <1>0, <1>1, <1>2, <1>4, <2>2, Sizes
  <2> QED
    BY <1>0, <2>1, <2>2
<1>6. RateBound'
  <2> SUFFICES ASSUME NEW i \in 1..(n + 1), NEW j \in 1..(n + 1), i <= j
               PROVE  ((j - i) + 1) * Cost <= Capacity + (sent'[j] - sent'[i])
    BY <1>1 DEF RateBound
  <2>1. CASE j \in 1..n
    <3>1. i \in 1..n
      BY <1>0, <2>1
    <3> QED
      BY <1>1, <2>1, <3>1 DEF RateInv, RateBound
  <2>2. CASE j = n + 1 /\ i \in 1..n
    BY <1>1, <1>3, <2>2
  <2>3. CASE j = n + 1 /\ i = n + 1
    BY <1>0, <1>1, <1>2, <1>4, <2>3, Sizes
  <2> QED
    BY <1>0, <2>1, <2>2, <2>3
<1> QED
  BY <1>5, <1>6 DEF RateInv

LEMMA RateNext == BucketType /\ RateInv /\ [Next]_vars => RateInv'
<1> SUFFICES ASSUME BucketType, RateInv, [Next]_vars PROVE RateInv'
  OBVIOUS
<1> USE DEF BucketType
<1>1. ASSUME UNCHANGED <<tokens, lastRefill, sent>> PROVE RateInv'
  BY <1>1 DEF RateInv, Credit, RateBound
<1>2. CASE Sleep
  <2>1. /\ tokens' = Refilled /\ lastRefill' = clock /\ sent' = sent
    BY <1>2 DEF Sleep
  <2>2. \A i \in 1..Len(sent) : sent[i] <= clock
    BY DEF TypeOK
  <2>3. Credit'
    BY <2>1, <2>2, RefillKeepsCredit DEF RateInv, Credit
  <2> QED
    BY <2>1, <2>3 DEF RateInv, RateBound
<1>3. CASE AcquireAtOnce
  BY <1>3, GrantKeepsRate DEF AcquireAtOnce
<1>4. CASE WakeUp
  BY <1>4, AwakeWithToken, GrantKeepsRate DEF WakeUp
<1> QED
  BY <1>1, <1>2, <1>3, <1>4 DEF Next, Tick, Call, vars

\* Between any two messages the limiter lets through no more than a full bucket
\* and what flowed in, for every capacity, resolution and number of callers.
THEOREM RateBoundTheorem == Spec => []RateBound
<1>1. RateInv => RateBound
  BY DEF RateInv
<1> QED
  BY <1>1, BucketTypeSafety, RateInit, RateNext, PTL DEF Spec
==============================================================================
