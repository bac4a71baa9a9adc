--------------------------- MODULE IBGateway_proofs ---------------------------
(* Theorems about IBGateway, for any callers, rates and waits. *)
EXTENDS IBGateway, TokenBucket_proofs, FiniteSetTheorems, WellFoundedInduction

-----------------------------------------------------------------------------
(* What the limiter promises, it keeps among the calls of the connector *)

\* Time may also pass while a task waits for a book.
LEMMA BucketSteps ==
  BucketType /\ RateInv /\ [GatewayNext]_gatewayVars => BucketType' /\ RateInv'
<1> SUFFICES ASSUME BucketType, RateInv, [GatewayNext]_gatewayVars
             PROVE  BucketType' /\ RateInv'
  OBVIOUS
<1>1. CASE [Next]_vars
  BY <1>1, BucketTypeNext, RateNext
<1>2. CASE clock' = clock + 1 /\ UNCHANGED <<tokens, lastRefill, queue, wake, sent>>
  <2>1. clock \in Nat /\ \A n \in 0..clock : n \in 0..(clock + 1)
    BY DEF BucketType, TypeOK
  <2>2. clock' \in Nat /\ lastRefill' \in 0..clock' /\ sent' \in Seq(0..clock')
    BY <1>2, <2>1 DEF BucketType, TypeOK
  <2> QED
    BY <1>2, <2>2 DEF BucketType, TypeOK, SleepsForDeficit, RateInv, Credit, RateBound
<1> QED
  BY <1>1, <1>2 DEF GatewayNext, gatewayVars, GatewayTick, Request, Send, Wait, Cancel,
                    CancelAtOnce, Next

LEMMA BucketSafety == GatewaySpec => [](BucketType /\ RateInv)
<1>1. GatewayInit => BucketType /\ RateInv
  BY BucketTypeInit, RateInit DEF GatewayInit
<1> QED
  BY <1>1, BucketSteps, PTL DEF GatewaySpec

\* The limiter's state is well typed among the connector's calls.
THEOREM GatewayBucketTypeOK == GatewaySpec => []TypeOK
<1>1. BucketType => TypeOK
  BY DEF BucketType
<1> QED
  BY <1>1, BucketSafety, PTL

\* No mix of calls and waits lets more through than the rate allows.
THEOREM GatewayRateBound == GatewaySpec => []RateBound
<1>1. RateInv => RateBound
  BY DEF RateInv
<1> QED
  BY <1>1, BucketSafety, PTL

-----------------------------------------------------------------------------
(* The cancellations *)

CancelType ==
  /\ open \in [DepthCallers -> (0..clock) \cup {None}]
  /\ cancels \in Seq(0..clock)

\* `who' tells whose cancellation each one was: a caller's own are Half apart,
\* and a request that is open was sent after the caller's last one.
Attributed(who) ==
  /\ who \in [1..Len(cancels) -> DepthCallers]
  /\ \A i, j \in 1..Len(cancels) :
       i < j /\ who[i] = who[j] => cancels[i] + Half <= cancels[j]
  /\ \A i \in 1..Len(cancels) : Busy(who[i]) => cancels[i] <= open[who[i]]

CancelInv == CancelType /\ \E who : Attributed(who)

LEMMA CancelTimes ==
  ASSUME CancelInv, clock \in Nat
  PROVE  /\ Len(cancels) \in Nat /\ DOMAIN cancels = 1..Len(cancels)
         /\ \A i \in 1..Len(cancels) : cancels[i] \in Nat /\ cancels[i] <= clock
<1>1. cancels \in Seq(0..clock)
  BY DEF CancelInv, CancelType
<1>2. Len(cancels) \in Nat /\ DOMAIN cancels = 1..Len(cancels)
  BY <1>1
<1>3. \A i \in 1..Len(cancels) : cancels[i] \in 0..clock
  BY <1>1
<1> QED
  BY <1>2, <1>3

LEMMA CancelInit == GatewayInit => CancelInv
<1> SUFFICES ASSUME GatewayInit PROVE CancelInv
  OBVIOUS
<1>1. CancelType /\ Len(cancels) = 0
  BY DEF GatewayInit, Init, CancelType
<1>2. Attributed([i \in 1..0 |-> None])
  <2>1. \A i \in 1..0 : FALSE
    OBVIOUS
  <2> QED
    BY <1>1, <2>1 DEF Attributed
<1> QED
  BY <1>1, <1>2 DEF CancelInv

LEMMA CancelNext ==
  BucketType /\ CancelInv /\ [GatewayNext]_gatewayVars => CancelInv'
<1> SUFFICES ASSUME BucketType, CancelInv, [GatewayNext]_gatewayVars PROVE CancelInv'
  OBVIOUS
<1>0. clock \in Nat /\ \A n \in 0..clock : n \in 0..(clock + 1) /\ n \in Nat
  BY DEF BucketType, TypeOK
<1>1. PICK who : Attributed(who)
  BY DEF CancelInv
<1>2. /\ open \in [DepthCallers -> (0..clock) \cup {None}] /\ cancels \in Seq(0..clock)
      /\ Len(cancels) \in Nat
      /\ \A i \in 1..Len(cancels) : cancels[i] \in Nat /\ cancels[i] <= clock
  BY <1>0, CancelTimes DEF CancelInv, CancelType
<1>3. Half \in Nat
  BY GatewayAssumption
<1>4. ASSUME UNCHANGED <<open, cancels>>, clock' = clock \/ clock' = clock + 1
      PROVE  CancelInv'
  <2>1. CancelType'
    <3>1. CASE clock' = clock
      BY <1>2, <1>4, <3>1 DEF CancelType
    <3>2. CASE clock' = clock + 1
      <4>1. /\ open \in [DepthCallers -> (0..(clock + 1)) \cup {None}]
            /\ cancels \in Seq(0..(clock + 1))
        BY <1>0, <1>2
      <4> QED
        BY <1>4, <3>2, <4>1 DEF CancelType
    <3> QED
      BY <1>4, <3>1, <3>2
  <2>2. Attributed(who)'
    BY <1>1, <1>4 DEF Attributed, Busy
  <2> QED
    BY <2>1, <2>2 DEF CancelInv
<1>5. CASE GatewayTick \/ Wait \/ (\E c \in Callers : Request(c)) \/ UNCHANGED gatewayVars
  BY <1>4, <1>5 DEF GatewayTick, Tick, Wait, Sleep, Request, Call, gatewayVars, vars
<1>6. CASE Send
  <2>1. UNCHANGED <<clock, cancels>>
    BY <1>6 DEF Send, AcquireAtOnce, WakeUp
  <2>2. \A c \in DepthCallers : open'[c] = clock \/ open'[c] = open[c]
    BY <1>6 DEF Send
  <2>3. open' \in [DepthCallers -> (0..clock) \cup {None}]
    BY <1>0, <1>2, <1>6 DEF Send
  <2>4. \A i \in 1..Len(cancels) : Busy(who[i])' => cancels[i] <= open'[who[i]]
    <3> SUFFICES ASSUME NEW i \in 1..Len(cancels), Busy(who[i])'
                 PROVE  cancels[i] <= open'[who[i]]
      OBVIOUS
    <3>1. who[i] \in DepthCallers /\ cancels[i] <= clock
      BY <1>0, <1>1, <1>2 DEF Attributed
    <3>2. CASE open'[who[i]] = clock
      BY <3>1, <3>2
    <3>3. CASE open'[who[i]] = open[who[i]]
      BY <1>1, <3>1, <3>3 DEF Attributed, Busy
    <3> QED
      BY <2>2, <3>1, <3>2, <3>3
  <2>5. Attributed(who)'
    BY <1>1, <2>1, <2>4 DEF Attributed
  <2> QED
    BY <1>2, <2>1, <2>3, <2>5 DEF CancelInv, CancelType
<1>7. ASSUME NEW c \in DepthCallers, Cancel(c) PROVE CancelInv'
  <2>n. PICK n \in Nat : n = Len(cancels)
    BY <1>2
  <2>now. PICK now : now = [i \in 1..(n + 1) |-> IF i = n + 1 THEN c ELSE who[i]]
    OBVIOUS
  <2>0. n \in Nat /\ clock' = clock
    BY <1>7 DEF Cancel, vars
  <2>1. /\ cancels' \in Seq(0..clock) /\ Len(cancels') = n + 1 /\ cancels'[n + 1] = clock
        /\ \A i \in 1..n : cancels'[i] = cancels[i]
    BY <1>0, <1>2, <1>7, <2>n DEF Cancel
  <2>2. /\ open' \in [DepthCallers -> (0..clock) \cup {None}] /\ open'[c] = None
        /\ \A d \in DepthCallers \ {c} : open'[d] = open[d]
    BY <1>2, <1>7 DEF Cancel
  <2>3. open[c] # None /\ open[c] \in Nat /\ open[c] + Half <= clock
    BY <1>0, <1>2, <1>3, <1>7 DEF Cancel, Busy
  <2>4. who \in [1..n -> DepthCallers]
    BY <1>1, <2>n DEF Attributed
  <2>5. now \in [1..(n + 1) -> DepthCallers] /\ now[n + 1] = c /\ \A i \in 1..n : now[i] = who[i]
    BY <2>0, <2>4, <2>now
  <2>6. \A i \in 1..(n + 1) : i \in 1..n \/ i = n + 1
    BY <2>0
  <2>7. ASSUME NEW i \in 1..(n + 1), NEW j \in 1..(n + 1), i < j, now[i] = now[j]
        PROVE  cancels'[i] + Half <= cancels'[j]
    <3>1. i \in 1..n
      BY <2>0, <2>7
    <3>2. CASE j \in 1..n
      BY <1>1, <2>n, <2>1, <2>5, <2>7, <3>1, <3>2 DEF Attributed
    <3>3. CASE j = n + 1
      <4>1. cancels[i] <= open[c] /\ cancels[i] \in Nat
        BY <1>1, <1>2, <2>n, <2>3, <2>5, <2>7, <3>1, <3>3 DEF Attributed, Busy
      <4> QED
        BY <1>0, <1>3, <2>1, <2>3, <3>1, <3>3, <4>1
    <3> QED
      BY <2>6, <3>2, <3>3
  <2>8. ASSUME NEW i \in 1..(n + 1), Busy(now[i])' PROVE cancels'[i] <= open'[now[i]]
    <3>1. now[i] # c
      BY <2>2, <2>8 DEF Busy
    <3>2. i \in 1..n /\ now[i] = who[i] /\ who[i] \in DepthCallers \ {c}
      BY <2>4, <2>5, <2>6, <3>1
    <3> QED
      BY <1>1, <2>n, <2>1, <2>2, <2>8, <3>2 DEF Attributed, Busy
  <2>9. Attributed(now)'
    BY <2>1, <2>5, <2>7, <2>8 DEF Attributed
  <2> QED
    BY <2>0, <2>1, <2>2, <2>9 DEF CancelInv, CancelType
<1> QED
  BY <1>5, <1>6, <1>7 DEF GatewayNext

LEMMA CancelSafety == GatewaySpec => []CancelInv
BY BucketSafety, CancelInit, CancelNext, PTL DEF GatewaySpec

-----------------------------------------------------------------------------
(* Counting *)

\* Naturals have a least member, and bounded ones a greatest.
LEMMA LeastMember ==
  ASSUME NEW S, S \subseteq Nat, S # {}
  PROVE  \E x \in S : \A y \in S : x <= y
<1> DEFINE R == OpToRel(<, Nat)
<1>1. \A x, y \in Nat : y < x => <<y, x>> \in R
  BY DEF OpToRel
<1>2. IsWellFoundedOn(R, Nat)
  BY NatLessThanWellFounded
<1> HIDE DEF R
<1>3. PICK x \in S : \A y \in S : ~(<<y, x>> \in R)
  BY <1>2, WFMin
<1>4. \A y \in S : ~(y < x)
  BY <1>1, <1>3
<1>5. \A y \in S : x <= y
  BY <1>4
<1> QED
  BY <1>5

LEMMA GreatestMember ==
  ASSUME NEW n \in Nat, NEW S, S \subseteq 0..n, S # {}
  PROVE  \E x \in S : \A y \in S : y <= x
<1> DEFINE M == {n - x : x \in S}
<1>0. \A x \in S : x \in Nat /\ n - x \in Nat
  OBVIOUS
<1>1. M \subseteq Nat /\ M # {}
  BY <1>0
<1>2. PICK z \in M : \A y \in M : z <= y
  BY <1>1, LeastMember
<1>3. PICK x \in S : z = n - x
  OBVIOUS
<1>4. \A y \in S : n - x <= n - y
  BY <1>2, <1>3
<1>5. \A y \in S : y <= x
  BY <1>0, <1>4
<1> QED
  BY <1>5

LEMMA DivisionBounds ==
  ASSUME NEW x \in Nat, NEW h \in Nat \ {0}, NEW k \in Nat
  PROVE  /\ x \div h \in Nat
         /\ k * h <= x => k <= x \div h
OBVIOUS

LEMMA DivisionMonotone ==
  ASSUME NEW x \in Nat, NEW y \in Nat, NEW h \in Nat \ {0}, x <= y
  PROVE  x \div h <= y \div h
OBVIOUS

\* Numbers at least h apart lie in different multiples of h.
LEMMA DivisionSeparates ==
  ASSUME NEW x \in Nat, NEW y \in Nat, NEW h \in Nat \ {0}, x + h <= y
  PROVE  x \div h # y \div h
OBVIOUS

\* From the first to the last message of an interval RateBound counts them all.
LEMMA SentWithin ==
  ASSUME TypeOK, RateBound, NEW from \in Nat, NEW to \in Nat, from <= to
  PROVE  /\ Within(sent, from, to) \in Nat
         /\ Within(sent, from, to) <= (Capacity + (to - from)) \div Cost
<1> DEFINE I == {i \in DOMAIN sent : sent[i] \in from..to}
           room == Capacity + (to - from)
<1>0. /\ DOMAIN sent = 1..Len(sent) /\ Len(sent) \in Nat
      /\ \A i \in 1..Len(sent) : sent[i] \in Nat
  BY DEF TypeOK
<1>1. I \in SUBSET (1..Len(sent)) /\ Within(sent, from, to) = Cardinality(I)
  BY <1>0 DEF Within
<1>2. room \in Nat /\ Cost \in Nat \ {0}
  BY Sizes
<1>3. \A i \in I : i \in 1..Len(sent) /\ from <= sent[i] /\ sent[i] <= to
  BY <1>0
<1> HIDE DEF I, room
<1>4. IsFiniteSet(I) /\ Cardinality(I) \in Nat
  <2>1. IsFiniteSet(1..Len(sent))
    BY <1>0, FS_Interval
  <2>2. IsFiniteSet(I)
    BY <1>1, <2>1, FS_Subset
  <2> QED
    BY <2>2, FS_CardinalityType
<1>5. Cardinality(I) * Cost <= room
  <2>1. CASE I = {}
    BY <1>2, <2>1, FS_EmptySet
  <2>2. CASE I # {}
    <3>1. I \subseteq Nat /\ I \subseteq 0..Len(sent)
      BY <1>0, <1>1
    <3>2. PICK i \in I : \A j \in I : i <= j
      BY <2>2, <3>1, LeastMember
    <3>3. PICK j \in I : \A k \in I : k <= j
      BY <1>0, <2>2, <3>1, GreatestMember
    <3>4. i \in Nat /\ j \in Nat /\ i <= j
      BY <1>0, <1>1, <3>2
    <3>5. I \in SUBSET (i..j)
      BY <1>0, <1>1, <3>2, <3>3
    <3>6. IsFiniteSet(i..j) /\ Cardinality(i..j) = (j - i) + 1
      BY <3>4, FS_Interval
    <3>7. Cardinality(I) <= (j - i) + 1
      BY <3>5, <3>6, FS_Subset
    <3>8. ((j - i) + 1) * Cost <= Capacity + (sent[j] - sent[i])
      BY <1>3, <3>4 DEF RateBound
    <3>9. Capacity + (sent[j] - sent[i]) <= room
      BY <1>0, <1>3, Sizes DEF room
    <3>10. \A x, y, h \in Nat : x <= y => x * h <= y * h
      OBVIOUS
    <3>11. Cardinality(I) * Cost <= ((j - i) + 1) * Cost
      BY <1>2, <1>4, <3>4, <3>7, <3>10
    <3>12. /\ Cardinality(I) * Cost \in Int /\ ((j - i) + 1) * Cost \in Int
           /\ Capacity + (sent[j] - sent[i]) \in Int
      BY <1>0, <1>2, <1>3, <1>4, <3>4, Sizes
    <3> QED
      BY <1>2, <3>8, <3>9, <3>11, <3>12
  <2> QED
    BY <2>1, <2>2
<1> QED
  BY <1>1, <1>2, <1>4, <1>5, DivisionBounds DEF room

\* A caller cancels once in each stretch of Half ticks of the interval.
LEMMA CancelledWithin ==
  ASSUME CancelInv, clock \in Nat, NEW from \in Nat, NEW to \in Nat, from <= to
  PROVE  /\ Within(cancels, from, to) \in Nat
         /\ Within(cancels, from, to)
              <= Cardinality(DepthCallers) * (1 + (to - from) \div Half)
<1> DEFINE J == {i \in DOMAIN cancels : cancels[i] \in from..to}
           last == (to - from) \div Half
           T == DepthCallers \X (0..last)
<1>0. /\ DOMAIN cancels = 1..Len(cancels) /\ Len(cancels) \in Nat
      /\ \A i \in 1..Len(cancels) : cancels[i] \in Nat
  BY CancelTimes
<1>1. J \in SUBSET (1..Len(cancels)) /\ Within(cancels, from, to) = Cardinality(J)
  BY <1>0 DEF Within
<1>2. PICK who : Attributed(who)
  BY DEF CancelInv
<1>3. Half \in Nat \ {0} /\ IsFiniteSet(DepthCallers) /\ last \in Nat
  BY GatewayAssumption, DivisionBounds
<1>4. IsFiniteSet(J) /\ Cardinality(J) \in Nat
  <2>1. IsFiniteSet(1..Len(cancels))
    BY <1>0, FS_Interval
  <2>2. IsFiniteSet(J)
    BY <1>1, <2>1, FS_Subset
  <2> QED
    BY <2>2, FS_CardinalityType
<1>5. /\ IsFiniteSet(T) /\ Cardinality(T) \in Nat
      /\ Cardinality(T) = Cardinality(DepthCallers) * (1 + last)
  <2>1. IsFiniteSet(0..last) /\ Cardinality(0..last) = 1 + last
    <3>1. \A k \in Nat : IsFiniteSet(0..k) /\ Cardinality(0..k) = 1 + k
      BY FS_Interval
    <3> QED
      BY <1>3, <3>1
  <2>2. /\ IsFiniteSet(DepthCallers \X (0..last))
        /\ Cardinality(DepthCallers \X (0..last)) = Cardinality(DepthCallers) * Cardinality(0..last)
    BY <1>3, <2>1, FS_Product
  <2>3. Cardinality(T) \in Nat
    BY <2>2, FS_CardinalityType
  <2> QED
    BY <2>1, <2>2, <2>3
<1>6. \A i \in J : /\ i \in 1..Len(cancels) /\ who[i] \in DepthCallers
                   /\ cancels[i] \in Nat /\ from <= cancels[i] /\ cancels[i] <= to
  BY <1>0, <1>2 DEF Attributed
<1>7. ASSUME NEW i \in J
      PROVE  (cancels[i] - from) \div Half \in 0..last
  <2>1. /\ cancels[i] - from \in Nat /\ to - from \in Nat
        /\ cancels[i] - from <= to - from
    BY <1>6
  <2> QED
    BY <1>3, <2>1, DivisionMonotone, DivisionBounds
<1>8. ASSUME NEW i \in J, NEW j \in J, i < j, who[i] = who[j]
      PROVE  (cancels[i] - from) \div Half # (cancels[j] - from) \div Half
  <2>1. cancels[i] + Half <= cancels[j]
    BY <1>2, <1>6, <1>8 DEF Attributed
  <2>2. /\ cancels[i] - from \in Nat /\ cancels[j] - from \in Nat
        /\ (cancels[i] - from) + Half <= cancels[j] - from
    BY <1>3, <1>6, <2>1
  <2> QED
    BY <1>3, <2>2, DivisionSeparates
<1> DEFINE f == [i \in J |-> <<who[i], (cancels[i] - from) \div Half>>]
<1>9. f \in [J -> T]
  BY <1>6, <1>7
<1>10. \A i, j \in J : i # j => i < j \/ j < i
  BY <1>6, <1>0
<1>11. ~(\E i, j \in J : i # j /\ f[i] = f[j])
  BY <1>8, <1>10
<1> HIDE DEF J, T, f, last
<1>12. ~(Cardinality(T) < Cardinality(J))
  BY <1>4, <1>5, <1>9, <1>11, FS_PigeonHole
<1> QED
  BY <1>1, <1>4, <1>5, <1>12 DEF last

\* All messages to the gateway, those past the limiter included: between two of
\* them come no more than a full bucket, its inflow, and one cancellation of
\* each depth caller for every wait for a book.
THEOREM GatewayBoundTheorem == GatewaySpec => []GatewayBound
<1>1. BucketType /\ RateInv /\ CancelInv => GatewayBound
  <2> SUFFICES ASSUME BucketType, RateInv, CancelInv,
                      NEW from \in Messages, NEW to \in Messages, from <= to
               PROVE  Within(sent, from, to) + Within(cancels, from, to)
                        <= (Capacity + (to - from)) \div Cost
                             + Cardinality(DepthCallers) * (1 + (to - from) \div Half)
    BY DEF GatewayBound
  <2>1. TypeOK /\ RateBound /\ clock \in Nat
    BY DEF BucketType, TypeOK, RateInv
  <2>2. Messages \subseteq Nat
    <3>1. \A i \in DOMAIN sent : sent[i] \in Nat
      BY <2>1 DEF TypeOK
    <3>2. \A i \in DOMAIN cancels : cancels[i] \in Nat
      BY <2>1, CancelTimes
    <3> QED
      BY <3>1, <3>2 DEF Messages
  <2>3. /\ Within(sent, from, to) \in Nat
        /\ Within(sent, from, to) <= (Capacity + (to - from)) \div Cost
    BY <2>1, <2>2, SentWithin
  <2>4. /\ Within(cancels, from, to) \in Nat
        /\ Within(cancels, from, to)
             <= Cardinality(DepthCallers) * (1 + (to - from) \div Half)
    BY <2>1, <2>2, CancelledWithin
  <2>5. /\ (Capacity + (to - from)) \div Cost \in Int
        /\ Cardinality(DepthCallers) * (1 + (to - from) \div Half) \in Int
    <3>1. /\ Capacity + (to - from) \in Nat /\ Cost \in Nat \ {0}
          /\ to - from \in Nat /\ Half \in Nat \ {0}
      BY <2>2, Sizes, GatewayAssumption
    <3>2. (Capacity + (to - from)) \div Cost \in Nat /\ (to - from) \div Half \in Nat
      BY <3>1, DivisionBounds
    <3>3. Cardinality(DepthCallers) \in Nat
      BY GatewayAssumption, FS_CardinalityType
    <3> QED
      BY <3>2, <3>3
  <2> QED
    BY <2>3, <2>4, <2>5
<1> QED
  BY <1>1, BucketSafety, CancelSafety, PTL
==============================================================================
