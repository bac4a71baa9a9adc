------------------------ MODULE SyntheticMatcher_proofs ------------------------
(* Theorems about SyntheticMatcher, for any number of matchers and orders. *)
EXTENDS SyntheticMatcher, TLAPS

LEMMA Bounds ==
  /\ MaxOrders \in Nat /\ LastOrder \in Nat /\ MaxTime \in Nat
  /\ MaxFailures \in Nat /\ Ttl \in Nat /\ Grace \in Nat /\ Grace > 0
BY BoundsAssumption, TtlAssumption

-----------------------------------------------------------------------------
(* Type correctness *)

\* A matcher's own step keeps its state well-typed when its new state is.
LEMMA MatcherType ==
  ASSUME TypeOK, NEW m \in Matchers, NEW s \in MatcherState,
         matcher' = [matcher EXCEPT ![m] = s]
  PROVE  matcher' \in [Matchers -> MatcherState]
BY DEF TypeOK

\* The state of a matcher that has looked an order up.
LEMMA FetchedType ==
  ASSUME NEW s \in MatcherState, NEW o \in Orders,
         NEW pc \in {"unindex", "delete", "quote"}
  PROVE  [s EXCEPT !.pc = pc, !.cur = o, !.todo = @ \ {o}] \in MatcherState
BY DEF MatcherState

LEMMA TypeInit == Init => TypeOK
BY Bounds DEF Init, TypeOK, Idle, MatcherState, Times, AllKinds, RegistrarPhases

\* A registration that goes on leaves the typing of hashes and index alone.
LEMMA RegistrarType ==
  ASSUME TypeOK, NEW o \in Orders, NEW p \in RegistrarPhases,
         registrar' = [registrar EXCEPT ![o] = p],
         registrar[o] # "registered", p \notin {"absent", "hset"} \/ o \notin stored,
         stored' = stored, index' = index
  PROVE  /\ registrar' \in [Orders -> RegistrarPhases]
         /\ stored' \in SUBSET {q \in Orders : registrar'[q] \notin {"absent", "hset"}}
         /\ index' \in SUBSET {q \in Orders : registrar'[q] = "registered"}
BY DEF TypeOK

LEMMA TypeNext == TypeOK /\ [Next]_vars => TypeOK'
<1> SUFFICES ASSUME TypeOK, [Next]_vars PROVE TypeOK'
  OBVIOUS
<1> USE DEF vars, orderVars, redisVars
<1>0. clock \in Nat /\ clock \in Times
  BY Bounds DEF TypeOK, Times
<1>1. CASE Tick
  <2>1. clock' \in Times
    BY <1>1, Bounds DEF TypeOK, Tick, Times
  <2> QED
    BY <1>1, <2>1 DEF TypeOK, Tick
<1>2. ASSUME NEW o \in Orders, RegistrarStep(o) PROVE TypeOK'
  <2>1. ASSUME NEW k \in Kinds, Register(o, k) PROVE TypeOK'
    <3>1. kind' \in [Orders -> AllKinds] /\ expiresAt' \in [Orders -> Nat]
      BY <1>0, <2>1, KindsAssumption, Bounds DEF Register, TypeOK
    <3>2. o \notin stored
      BY <2>1 DEF Register, TypeOK
    <3> QED
      BY <2>1, <3>1, <3>2, RegistrarType DEF Register, TypeOK, RegistrarPhases
  <2>2. CASE StoreOrder(o)
    BY <2>2 DEF StoreOrder, TypeOK, RegistrarPhases
  <2>3. CASE SetDeadline(o)
    <3>1. deadline' \in [Orders -> Nat]
      BY <1>0, <2>3, Bounds DEF SetDeadline, TypeOK
    <3> QED
      BY <2>3, <3>1, RegistrarType DEF SetDeadline, TypeOK, RegistrarPhases
  <2>4. CASE IndexOrder(o)
    BY <2>4 DEF IndexOrder, TypeOK, RegistrarPhases
  <2>5. CASE RegistrationFails(o)
    BY <2>5, RegistrarType DEF RegistrationFails, TypeOK, RegistrarPhases
  <2> QED
    BY <1>2, <2>1, <2>2, <2>3, <2>4, <2>5 DEF RegistrarStep
<1>3. ASSUME NEW m \in Matchers, MatcherStep(m) PROVE TypeOK'
  <2> DEFINE s == matcher[m]
  <2>0. s \in MatcherState
    BY DEF TypeOK
  <2>1. CASE BeginScan(m)
    <3>1. matcher' = [matcher EXCEPT ![m] = [s EXCEPT !.pc = "list", !.now = clock]]
      BY <2>1 DEF BeginScan
    <3>2. [s EXCEPT !.pc = "list", !.now = clock] \in MatcherState
      BY <1>0, <2>0 DEF MatcherState
    <3> QED
      BY <2>1, <3>1, <3>2, MatcherType DEF BeginScan, TypeOK
  <2>2. CASE ListOrders(m)
    <3>1. matcher' = [matcher EXCEPT ![m] = [s EXCEPT !.pc = "next", !.todo = index]]
      BY <2>2 DEF ListOrders
    <3>2. [s EXCEPT !.pc = "next", !.todo = index] \in MatcherState
      BY <2>0 DEF MatcherState, TypeOK
    <3> QED
      BY <2>2, <3>1, <3>2, MatcherType DEF ListOrders, TypeOK
  <2>3. ASSUME NEW o \in s.todo, FetchOrder(m, o) PROVE TypeOK'
    <3> DEFINE pc == AfterFetch(m, o)
    <3>1. matcher' = [matcher EXCEPT ![m] =
                        [s EXCEPT !.pc = pc, !.cur = o, !.todo = @ \ {o}]]
      BY <2>3 DEF FetchOrder
    <3>2. o \in Orders /\ pc \in {"unindex", "delete", "quote"}
      BY <2>0 DEF MatcherState, AfterFetch
    <3>3. [s EXCEPT !.pc = pc, !.cur = o, !.todo = @ \ {o}] \in MatcherState
      BY <2>0, <3>2, FetchedType
    <3> QED
      BY <2>3, <3>1, <3>3, MatcherType DEF FetchOrder, TypeOK
  <2>4. CASE DeleteOrder(m)
    <3>1. matcher' = [matcher EXCEPT ![m] = [s EXCEPT !.pc = "unindex"]]
      BY <2>4 DEF DeleteOrder
    <3>2. [s EXCEPT !.pc = "unindex"] \in MatcherState
      BY <2>0 DEF MatcherState
    <3> QED
      BY <2>4, <3>1, <3>2, MatcherType DEF DeleteOrder, TypeOK
  <2>5. CASE UnindexOrder(m)
    <3>1. matcher' = [matcher EXCEPT ![m] = [s EXCEPT !.pc = "next", !.cur = 0]]
      BY <2>5 DEF UnindexOrder
    <3>2. [s EXCEPT !.pc = "next", !.cur = 0] \in MatcherState
      BY <2>0 DEF MatcherState
    <3> QED
      BY <2>5, <3>1, <3>2, MatcherType DEF UnindexOrder, TypeOK
  <2>6. CASE QuoteOrder(m)
    <3>1. \E n \in MatcherState : matcher' = [matcher EXCEPT ![m] = n]
      <4>1. Idle \in MatcherState
        BY Bounds DEF Idle, MatcherState, Times
      <4>2. [s EXCEPT !.pc = "next", !.cur = 0] \in MatcherState
            /\ [s EXCEPT !.pc = "fill"] \in MatcherState
        BY <2>0 DEF MatcherState
      <4>3. \/ matcher' = [matcher EXCEPT ![m] = [s EXCEPT !.pc = "next", !.cur = 0]]
            \/ matcher' = [matcher EXCEPT ![m] = [s EXCEPT !.pc = "fill"]]
            \/ matcher' = [matcher EXCEPT ![m] = Idle]
        BY <2>6 DEF QuoteOrder
      <4> QED
        BY <4>1, <4>2, <4>3
    <3> QED
      BY <2>6, <3>1, MatcherType DEF QuoteOrder, TypeOK
  <2>7. CASE FillOrder(m)
    <3>1. matcher' = [matcher EXCEPT ![m] = [s EXCEPT !.pc = "next", !.cur = 0]]
      BY <2>7 DEF FillOrder
    <3>2. [s EXCEPT !.pc = "next", !.cur = 0] \in MatcherState
      BY <2>0 DEF MatcherState
    <3>3. fills' \in [Matchers -> [Orders -> Nat]]
      <4> DEFINE row == [fills[m] EXCEPT ![s.cur] = fills[m][s.cur] + 1]
      <4>1. fills' = [fills EXCEPT ![m] = row]
        BY <2>7 DEF FillOrder
      <4>2. row \in [Orders -> Nat]
        <5>1. fills[m] \in [Orders -> Nat]
          BY DEF TypeOK
        <5>2. CASE s.cur \in Orders
          BY <5>1, <5>2
        <5>3. CASE s.cur \notin Orders
          BY <5>1, <5>3
        <5> QED
          BY <5>2, <5>3
      <4> QED
        BY <4>1, <4>2 DEF TypeOK
    <3> QED
      BY <2>7, <3>1, <3>2, <3>3, MatcherType DEF FillOrder, TypeOK
  <2>8. CASE EndScan(m)
    <3>1. Idle \in MatcherState
      BY Bounds DEF Idle, MatcherState, Times
    <3> QED
      BY <2>8, <3>1, MatcherType DEF EndScan, TypeOK
  <2> QED
    BY <1>3, <2>1, <2>2, <2>3, <2>4, <2>5, <2>6, <2>7, <2>8 DEF MatcherStep
<1>4. ASSUME NEW m \in Matchers, ScanFails(m) PROVE TypeOK'
  <2>1. Idle \in MatcherState
    BY Bounds DEF Idle, MatcherState, Times
  <2>2. failures' \in [Matchers -> 0..MaxFailures]
    BY <1>4, Bounds DEF TypeOK, ScanFails
  <2> QED
    BY <1>4, <2>1, <2>2, MatcherType DEF TypeOK, ScanFails
<1>5. CASE UNCHANGED vars
  BY <1>5 DEF TypeOK
<1> QED
  BY <1>1, <1>2, <1>3, <1>4, <1>5 DEF Next

\* Every variable keeps its type: the index holds only registered orders.
THEOREM TypeCorrect == Spec => []TypeOK
BY TypeInit, TypeNext, PTL DEF Spec

-----------------------------------------------------------------------------
(* The inductive invariant *)

\* What allows an order to leave the index.
Done(o) == Filled(o) \/ expiresAt[o] < clock

Registered(o) == registrar[o] = "registered"

\* What holds of an order, whoever looks at it: while it is registered the hash
\* is written first and its TTL outlives it, a filled order has no hash, and one
\* without hash, or out of the index, is done.
Kept(o) ==
  /\ registrar[o] # "absent" => expiresAt[o] <= clock + Ttl
  /\ registrar[o] \in {"expire", "sadd"} => o \in stored
  /\ registrar[o] \in {"sadd", "registered"} =>
       deadline[o] >= expiresAt[o] /\ deadline[o] > 0
  /\ Filled(o) => o \notin stored /\ Registered(o)
  /\ Registered(o) => (o \in stored \/ Done(o)) /\ (o \in index \/ Done(o))

\* What a matcher knows of the orders of its scan, and of the one in its hands.
Knows(m) ==
  LET s == matcher[m] IN
  /\ s.now <= clock
  /\ \A o \in s.todo : Registered(o)
  /\ s.pc \in {"delete", "unindex", "quote", "fill"} =>
       s.cur \in Orders /\ Registered(s.cur)
  /\ s.pc = "delete" => s.now > expiresAt[s.cur]
  /\ s.pc = "unindex" => Done(s.cur)
  /\ s.pc \in {"quote", "fill"} =>
       fills[m][s.cur] = 0 /\ s.now <= expiresAt[s.cur]
  /\ s.pc = "fill" => kind[s.cur] = "sound"
  /\ \A o \in Orders : fills[m][o] <= 1

MatcherInv ==
  /\ \A o \in Orders : Kept(o)
  /\ \A m \in Matchers : Knows(m)

\* Time passes and fills are added: what is done stays done, and what a matcher
\* knows of registered orders stays true while another step happens.
LEMMA StaysDone ==
  ASSUME TypeOK, TypeOK', clock <= clock', NEW o \in Orders,
         expiresAt'[o] = expiresAt[o],
         \A m \in Matchers : fills[m][o] <= fills'[m][o],
         Done(o)
  PROVE  Done(o)'
<1>1. clock \in Nat /\ clock' \in Nat /\ expiresAt[o] \in Nat
      /\ \A m \in Matchers : fills[m][o] \in Nat /\ fills'[m][o] \in Nat
  BY Bounds DEF TypeOK, Times
<1> QED
  BY <1>1 DEF Done, Filled

\* What a step does to all but the order or the matcher it is about.
Calm ==
  /\ clock <= clock'
  /\ \A o \in Orders : Registered(o) =>
       Registered(o)' /\ kind'[o] = kind[o] /\ expiresAt'[o] = expiresAt[o]
  /\ \A m \in Matchers, o \in Orders : fills[m][o] <= fills'[m][o]

LEMMA Bystander ==
  ASSUME TypeOK, TypeOK', Calm, NEW m \in Matchers, Knows(m),
         matcher'[m] = matcher[m], fills'[m] = fills[m]
  PROVE  Knows(m)'
<1> DEFINE s == matcher[m]
<1>1. s \in MatcherState /\ s.now \in Nat /\ clock \in Nat /\ clock' \in Nat
      /\ s.todo \subseteq Orders
  BY Bounds DEF TypeOK, MatcherState, Times
<1>2. s.now <= clock'
  BY <1>1 DEF Knows, Calm
<1>3. \A o \in s.todo : Registered(o)'
  BY <1>1 DEF Knows, Calm
<1>4. ASSUME s.pc \in {"delete", "unindex", "quote", "fill"}
      PROVE  /\ s.cur \in Orders /\ Registered(s.cur) /\ Registered(s.cur)'
             /\ kind'[s.cur] = kind[s.cur] /\ expiresAt'[s.cur] = expiresAt[s.cur]
  BY <1>4 DEF Knows, Calm
<1>5. s.pc = "unindex" => Done(s.cur)'
  BY <1>4, StaysDone DEF Knows, Calm
<1> QED
  BY <1>2, <1>3, <1>4, <1>5 DEF Knows

LEMMA MatcherInit == Init => MatcherInv
BY Bounds DEF Init, MatcherInv, Kept, Knows, Idle, Filled, Registered, Done

\* A step of the registrar of order o, or of the clock: no matcher moves.
LEMMA QuietStep ==
  ASSUME TypeOK, TypeOK', MatcherInv, Calm, UNCHANGED <<matcher, fills>>,
         \A o \in Orders : Kept(o)'
  PROVE  MatcherInv'
BY Bystander DEF MatcherInv

\* An order that a step leaves as it is.
LEMMA StillKept ==
  ASSUME TypeOK, TypeOK', Calm, NEW o \in Orders, Kept(o),
         registrar'[o] = registrar[o], expiresAt'[o] = expiresAt[o],
         deadline'[o] = deadline[o], o \in stored' <=> o \in stored,
         o \in index' <=> o \in index,
         \A m \in Matchers : fills'[m][o] = fills[m][o]
  PROVE  Kept(o)'
<1>1. Done(o) => Done(o)'
  BY StaysDone DEF Calm
<1>2. Filled(o)' <=> Filled(o)
  BY DEF Filled
<1>3. clock \in Nat /\ clock' \in Nat /\ expiresAt[o] \in Nat /\ Ttl \in Nat
  BY Bounds DEF TypeOK, Times
<1> QED
  BY <1>1, <1>2, <1>3 DEF Kept, Registered, Calm

\* A matcher's step that touches no order's fills.
LEMMA OwnStep ==
  ASSUME TypeOK, TypeOK', MatcherInv, NEW m \in Matchers,
         UNCHANGED <<clock, kind, expiresAt, registrar, fills>>,
         \A n \in Matchers \ {m} : matcher'[n] = matcher[n],
         Knows(m)', \A o \in Orders : Kept(o)'
  PROVE  MatcherInv'
<1>1. Calm
  BY Bounds DEF Calm, Registered, TypeOK, Times
<1> QED
  BY <1>1, Bystander DEF MatcherInv

\* Most steps of a matcher change nothing else.
LEMMA InnerStep ==
  ASSUME TypeOK, TypeOK', MatcherInv, NEW m \in Matchers,
         UNCHANGED <<clock, kind, expiresAt, registrar, stored, deadline, index, fills>>,
         \A n \in Matchers \ {m} : matcher'[n] = matcher[n], Knows(m)'
  PROVE  MatcherInv'
<1>1. \A o \in Orders : Kept(o)'
  BY DEF MatcherInv, Kept, Registered, Done, Filled
<1> QED
  BY <1>1, OwnStep

LEMMA MatcherNext == TypeOK /\ TypeOK' /\ MatcherInv /\ [Next]_vars => MatcherInv'
<1> SUFFICES ASSUME TypeOK, TypeOK', MatcherInv, [Next]_vars PROVE MatcherInv'
  OBVIOUS
<1>0. /\ clock \in Nat /\ Ttl \in Nat /\ Grace \in Nat /\ Grace > 0
      /\ \A o \in Orders : Kept(o) /\ expiresAt[o] \in Nat /\ deadline[o] \in Nat
      /\ \A m \in Matchers : Knows(m)
      /\ \A m \in Matchers, o \in Orders : fills[m][o] \in Nat
  BY Bounds DEF TypeOK, MatcherInv, Times
<1> USE DEF vars, orderVars, redisVars
<1>1. CASE Tick
  <2>1. Calm
    BY <1>0, <1>1 DEF Tick, Calm, Registered
  <2>2. \A o \in Orders : Kept(o)'
    BY <1>0, <1>1, <2>1, StillKept DEF Tick
  <2> QED
    BY <1>1, <2>1, <2>2, QuietStep DEF Tick
<1>2. ASSUME NEW o \in Orders, RegistrarStep(o) PROVE MatcherInv'
  <2>0. UNCHANGED <<clock, matcher, fills>> /\ ~Registered(o)
    BY <1>2 DEF RegistrarStep, Register, StoreOrder, SetDeadline, IndexOrder,
                RegistrationFails, Registered
  <2>1. \A q \in Orders \ {o} :
          /\ kind'[q] = kind[q] /\ expiresAt'[q] = expiresAt[q]
          /\ registrar'[q] = registrar[q] /\ deadline'[q] = deadline[q]
          /\ (q \in stored' <=> q \in stored) /\ (q \in index' <=> q \in index)
    <3>1. ASSUME NEW k \in Kinds, Register(o, k)
          PROVE  \A q \in Orders \ {o} :
                   /\ kind'[q] = kind[q] /\ expiresAt'[q] = expiresAt[q]
                   /\ registrar'[q] = registrar[q] /\ deadline'[q] = deadline[q]
                   /\ stored' = stored /\ index' = index
      BY <3>1 DEF Register, TypeOK
    <3>2. CASE StoreOrder(o)
      BY <3>2 DEF StoreOrder, TypeOK
    <3>3. CASE SetDeadline(o)
      BY <3>3 DEF SetDeadline, TypeOK
    <3>4. CASE IndexOrder(o)
      BY <3>4 DEF IndexOrder, TypeOK
    <3>5. CASE RegistrationFails(o)
      BY <3>5 DEF RegistrationFails, TypeOK
    <3> QED
      BY <1>2, <3>1, <3>2, <3>3, <3>4, <3>5 DEF RegistrarStep
  <2>2. Calm
    BY <1>0, <2>0, <2>1 DEF Calm, Registered
  <2>3. Kept(o)'
    <3>0. ~Filled(o) /\ Filled(o)' = Filled(o)
      BY <1>0, <2>0 DEF Kept, Filled
    <3>1. ASSUME NEW k \in Kinds, Register(o, k) PROVE Kept(o)'
      <4>1. registrar'[o] = "hset" /\ expiresAt'[o] = clock + Ttl
        BY <3>1 DEF Register, TypeOK
      <4> QED
        BY <1>0, <2>0, <3>0, <4>1 DEF Kept, Registered
    <3>2. CASE StoreOrder(o)
      <4>1. /\ registrar[o] = "hset" /\ registrar'[o] = "expire"
            /\ expiresAt' = expiresAt /\ o \in stored'
        BY <3>2 DEF StoreOrder, TypeOK
      <4> QED
        BY <1>0, <2>0, <3>0, <4>1 DEF Kept, Registered
    <3>3. CASE SetDeadline(o)
      <4>1. /\ registrar[o] = "expire" /\ registrar'[o] = "sadd"
            /\ expiresAt' = expiresAt /\ stored' = stored
            /\ deadline'[o] = clock + Ttl + Grace
        BY <3>3 DEF SetDeadline, TypeOK
      <4> QED
        BY <1>0, <2>0, <3>0, <4>1 DEF Kept, Registered
    <3>4. CASE IndexOrder(o)
      <4>1. /\ registrar[o] = "sadd" /\ registrar'[o] = "registered"
            /\ expiresAt' = expiresAt /\ stored' = stored
            /\ deadline' = deadline /\ o \in index'
        BY <3>4 DEF IndexOrder, TypeOK
      <4> QED
        BY <1>0, <2>0, <3>0, <4>1 DEF Kept, Registered
    <3>5. CASE RegistrationFails(o)
      <4>1. /\ registrar[o] # "absent" /\ registrar'[o] = "failed"
            /\ expiresAt' = expiresAt
        BY <3>5 DEF RegistrationFails, TypeOK
      <4> QED
        BY <1>0, <2>0, <3>0, <4>1 DEF Kept, Registered
    <3> QED
      BY <1>2, <3>1, <3>2, <3>3, <3>4, <3>5 DEF RegistrarStep
  <2>4. \A q \in Orders : Kept(q)'
    <3>1. ASSUME NEW q \in Orders \ {o} PROVE Kept(q)'
      BY <1>0, <2>0, <2>1, <2>2, StillKept
    <3> QED
      BY <2>3, <3>1
  <2> QED
    BY <2>0, <2>2, <2>4, QuietStep
<1>3. ASSUME NEW m \in Matchers, MatcherStep(m) PROVE MatcherInv'
  <2> DEFINE s == matcher[m]
  <2>0. s \in MatcherState /\ Knows(m)
    BY <1>0 DEF TypeOK
  <2>1. CASE BeginScan(m)
    <3>1. /\ matcher'[m] = [s EXCEPT !.pc = "list", !.now = clock]
          /\ \A n \in Matchers \ {m} : matcher'[n] = matcher[n]
          /\ UNCHANGED <<clock, orderVars, registrar, redisVars, fills>>
      BY <2>1 DEF BeginScan, TypeOK
    <3>2. Knows(m)'
      BY <1>0, <2>0, <3>1 DEF Knows, MatcherState, Registered
    <3> QED
      BY <3>1, <3>2, InnerStep
  <2>2. CASE ListOrders(m)
    <3>1. /\ matcher'[m] = [s EXCEPT !.pc = "next", !.todo = index]
          /\ \A n \in Matchers \ {m} : matcher'[n] = matcher[n]
          /\ UNCHANGED <<clock, orderVars, registrar, redisVars, fills>>
      BY <2>2 DEF ListOrders, TypeOK
    <3>2. \A o \in index : Registered(o)
      BY DEF TypeOK, Registered
    <3>3. Knows(m)'
      BY <1>0, <2>0, <3>1, <3>2 DEF Knows, MatcherState, Registered
    <3> QED
      BY <3>1, <3>3, InnerStep
  <2>3. ASSUME NEW o \in s.todo, FetchOrder(m, o) PROVE MatcherInv'
    <3>1. /\ matcher'[m] = [s EXCEPT !.pc = AfterFetch(m, o), !.cur = o, !.todo = @ \ {o}]
          /\ \A n \in Matchers \ {m} : matcher'[n] = matcher[n]
          /\ UNCHANGED <<clock, orderVars, registrar, redisVars, fills>>
      BY <2>3 DEF FetchOrder, TypeOK
    <3>2. o \in Orders /\ Registered(o) /\ Kept(o) /\ s.now \in Nat
      BY <1>0, <2>0, Bounds DEF MatcherState, Knows, Times
    <3>3. ~Held(o) => Done(o)
      BY <1>0, <3>2 DEF Held, Kept, Done, Registered
    <3>4. Held(o) => \A n \in Matchers : fills[n][o] = 0
      BY <1>0, <3>2 DEF Held, Kept, Filled
    <3> DEFINE pc == AfterFetch(m, o)
    <3>5. /\ pc \in {"unindex", "delete", "quote"}
          /\ pc = "unindex" => Done(o)
          /\ pc = "delete" => s.now > expiresAt[o]
          /\ pc = "quote" => fills[m][o] = 0 /\ s.now <= expiresAt[o]
      BY <1>0, <3>2, <3>3, <3>4 DEF AfterFetch, Expired
    <3> HIDE DEF pc
    <3>6. /\ matcher'[m].pc = pc /\ matcher'[m].cur = o /\ matcher'[m].now = s.now
          /\ matcher'[m].todo = s.todo \ {o}
      BY <2>0, <3>1 DEF MatcherState, pc
    <3>7. Knows(m)'
      BY <2>0, <3>1, <3>2, <3>5, <3>6 DEF Knows, Registered, Done, Filled
    <3> QED
      BY <3>1, <3>7, InnerStep
  <2>4. CASE DeleteOrder(m)
    <3>1. /\ matcher'[m] = [s EXCEPT !.pc = "unindex"] /\ s.pc = "delete"
          /\ \A n \in Matchers \ {m} : matcher'[n] = matcher[n]
          /\ UNCHANGED <<clock, orderVars, registrar, deadline, index, fills>>
          /\ stored' = stored \ {s.cur}
      BY <2>4 DEF DeleteOrder, TypeOK
    <3>2. s.now \in Nat /\ s.cur \in Orders /\ Registered(s.cur) /\ Done(s.cur)
      BY <1>0, <2>0, <3>1, Bounds DEF Knows, MatcherState, Times, Done
    <3>3. Knows(m)'
      BY <2>0, <3>1, <3>2 DEF Knows, MatcherState, Registered, Done, Filled
    <3>4. \A o \in Orders : Kept(o)'
      BY <1>0, <3>1, <3>2 DEF Kept, Registered, Done, Filled
    <3> QED
      BY <3>1, <3>3, <3>4, OwnStep
  <2>5. CASE UnindexOrder(m)
    <3>1. /\ matcher'[m] = [s EXCEPT !.pc = "next", !.cur = 0] /\ s.pc = "unindex"
          /\ \A n \in Matchers \ {m} : matcher'[n] = matcher[n]
          /\ UNCHANGED <<clock, orderVars, registrar, stored, deadline, fills>>
          /\ index' = index \ {s.cur}
      BY <2>5 DEF UnindexOrder, TypeOK
    <3>2. Done(s.cur)
      BY <2>0, <3>1 DEF Knows
    <3>3. Knows(m)'
      BY <2>0, <3>1 DEF Knows, MatcherState, Registered
    <3>4. \A o \in Orders : Kept(o)'
      BY <1>0, <3>1, <3>2 DEF Kept, Registered, Done, Filled
    <3> QED
      BY <3>1, <3>3, <3>4, OwnStep
  <2>6. CASE QuoteOrder(m)
    <3>1. \/ matcher' = [matcher EXCEPT ![m] = [s EXCEPT !.pc = "next", !.cur = 0]]
          \/ /\ matcher' = [matcher EXCEPT ![m] = [s EXCEPT !.pc = "fill"]]
             /\ kind[s.cur] = "sound"
          \/ matcher' = [matcher EXCEPT ![m] = Idle]
      BY <2>6 DEF QuoteOrder
    <3>2. /\ UNCHANGED <<clock, orderVars, registrar, redisVars, fills>>
          /\ s.pc = "quote"
          /\ \A n \in Matchers \ {m} : matcher'[n] = matcher[n]
      BY <2>6 DEF QuoteOrder, TypeOK
    <3>3. \/ matcher'[m] = [s EXCEPT !.pc = "next", !.cur = 0]
          \/ matcher'[m] = [s EXCEPT !.pc = "fill"] /\ kind[s.cur] = "sound"
          \/ matcher'[m] = Idle
      BY <3>1 DEF TypeOK
    <3>4. Knows(m)'
      <4>1. /\ s.now \in Nat /\ s.now <= clock
            /\ s.cur \in Orders /\ Registered(s.cur)
            /\ fills[m][s.cur] = 0 /\ s.now <= expiresAt[s.cur]
            /\ \A o \in s.todo : Registered(o)
            /\ \A o \in Orders : fills[m][o] <= 1
        BY <2>0, <3>2, Bounds DEF Knows, MatcherState, Times
      <4>2. CASE matcher'[m] = [s EXCEPT !.pc = "next", !.cur = 0]
        BY <2>0, <3>2, <4>1, <4>2 DEF Knows, MatcherState, Registered
      <4>3. CASE matcher'[m] = [s EXCEPT !.pc = "fill"] /\ kind[s.cur] = "sound"
        BY <2>0, <3>2, <4>1, <4>3 DEF Knows, MatcherState, Registered
      <4>4. CASE matcher'[m] = Idle
        BY <1>0, <3>2, <4>1, <4>4 DEF Knows, Registered, Idle
      <4> QED
        BY <3>3, <4>2, <4>3, <4>4
    <3> QED
      BY <3>2, <3>4, InnerStep
  <2>7. CASE FillOrder(m)
    <3>0. s.pc = "fill"
      BY <2>7 DEF FillOrder
    <3>1. PICK o \in Orders : o = s.cur /\ Registered(o) /\ fills[m][o] = 0
      BY <2>0, <3>0 DEF Knows
    <3>2. /\ matcher'[m] = [s EXCEPT !.pc = "next", !.cur = 0]
          /\ \A n \in Matchers \ {m} : matcher'[n] = matcher[n]
          /\ UNCHANGED <<clock, orderVars, registrar, deadline>>
          /\ stored' = stored \ {o} /\ index' = index \ {o}
      BY <2>7, <3>1 DEF FillOrder, TypeOK
    <3>3. /\ fills'[m][o] = 1
          /\ \A q \in Orders \ {o} : fills'[m][q] = fills[m][q]
          /\ \A n \in Matchers \ {m} : fills'[n] = fills[n]
      <4>1. fills' = [fills EXCEPT ![m] = [fills[m] EXCEPT ![o] = fills[m][o] + 1]]
        BY <2>7, <3>1 DEF FillOrder
      <4> QED
        BY <3>1, <4>1 DEF TypeOK
    <3>4. Calm
      BY <1>0, <3>1, <3>2, <3>3 DEF Calm, Registered
    <3>5. Knows(m)'
      BY <1>0, <2>0, <3>1, <3>2, <3>3 DEF Knows, MatcherState, Registered
    <3>6. \A n \in Matchers \ {m} : Knows(n)'
      BY <1>0, <3>2, <3>3, <3>4, Bystander
    <3>7. Kept(o)'
      <4>1. Filled(o)' /\ Done(o)' /\ Registered(o)' /\ o \notin stored'
        BY <3>1, <3>2, <3>3 DEF Filled, Done, Registered
      <4>2. Kept(o) /\ UNCHANGED <<clock, expiresAt, registrar, deadline>>
        BY <1>0, <3>1, <3>2
      <4> QED
        BY <3>1, <4>1, <4>2 DEF Kept, Registered
    <3>8. ASSUME NEW q \in Orders \ {o} PROVE Kept(q)'
      <4>1. \A n \in Matchers : fills'[n][q] = fills[n][q]
        BY <3>3
      <4> QED
        BY <1>0, <3>2, <3>4, <4>1, StillKept
    <3> QED
      BY <3>5, <3>6, <3>7, <3>8 DEF MatcherInv
  <2>8. CASE EndScan(m)
    <3>1. /\ matcher'[m] = Idle
          /\ \A n \in Matchers \ {m} : matcher'[n] = matcher[n]
          /\ UNCHANGED <<clock, orderVars, registrar, redisVars, fills>>
      BY <2>8 DEF EndScan, TypeOK
    <3>2. Knows(m)'
      BY <1>0, <2>0, <3>1 DEF Knows, Idle
    <3> QED
      BY <3>1, <3>2, InnerStep
  <2> QED
    BY <1>3, <2>1, <2>2, <2>3, <2>4, <2>5, <2>6, <2>7, <2>8 DEF MatcherStep
<1>4. ASSUME NEW m \in Matchers, ScanFails(m) PROVE MatcherInv'
  <2>1. /\ matcher'[m] = Idle
        /\ \A n \in Matchers \ {m} : matcher'[n] = matcher[n]
        /\ UNCHANGED <<clock, orderVars, registrar, redisVars, fills>>
    BY <1>4 DEF ScanFails, TypeOK
  <2>2. Knows(m)'
    BY <1>0, <2>1 DEF Knows, Idle
  <2>3. \A o \in Orders : Kept(o)'
    BY <1>0, <2>1 DEF Kept, Registered, Done, Filled
  <2> QED
    BY <2>1, <2>2, <2>3, OwnStep
<1>5. CASE UNCHANGED vars
  BY <1>5 DEF MatcherInv, Kept, Knows, Registered, Done, Filled
<1> QED
  BY <1>1, <1>2, <1>3, <1>4, <1>5 DEF Next

\* What the registrar's order of commands and each matcher rely on always holds.
THEOREM MatcherSafety == Spec => []MatcherInv
BY TypeCorrect, MatcherInit, MatcherNext, PTL DEF Spec

\* Whatever fails, a matcher fills an order at most once.
THEOREM FilledOnceTheorem == Spec => []FilledOncePerMatcher
<1>1. MatcherInv => FilledOncePerMatcher
  BY DEF MatcherInv, Knows, FilledOncePerMatcher
<1> QED
  BY <1>1, MatcherSafety, PTL

\* A registered order leaves the index only filled or expired.
THEOREM NoLiveOrderDroppedTheorem == Spec => []NoLiveOrderDropped
<1>1. MatcherInv => NoLiveOrderDropped
  BY DEF MatcherInv, Kept, Done, Registered, NoLiveOrderDropped
<1> QED
  BY <1>1, MatcherSafety, PTL

\* The hash of an indexed order has a TTL.
THEOREM IndexedHasDeadlineTheorem == Spec => []IndexedHasDeadline
<1>1. TypeOK /\ MatcherInv => IndexedHasDeadline
  BY DEF TypeOK, MatcherInv, Kept, IndexedHasDeadline
<1> QED
  BY <1>1, TypeCorrect, MatcherSafety, PTL

\* A filled order has a price and had not expired when the scan began.
THEOREM NoFillOfTheDeadTheorem == Spec => NoFillOfTheDead
<1>1. TypeOK /\ MatcherInv /\ [Next]_vars => [FillsAlive]_vars
  <2> SUFFICES ASSUME TypeOK, MatcherInv, Next PROVE FillsAlive
    BY DEF FillsAlive, vars
  <2>1. ASSUME NEW m \in Matchers, FillOrder(m) PROVE FillsAlive
    <3> DEFINE o == matcher[m].cur
    <3>1. /\ matcher[m].pc = "fill" /\ o \in Orders
          /\ kind[o] = "sound" /\ matcher[m].now <= expiresAt[o]
      BY <2>1 DEF MatcherInv, Knows, FillOrder
    <3>2. \A n \in Matchers, q \in Orders :
            n # m \/ q # o => fills'[n][q] = fills[n][q]
      <4>1. fills' = [fills EXCEPT ![m] = [fills[m] EXCEPT ![o] = fills[m][o] + 1]]
        BY <2>1 DEF FillOrder
      <4> QED
        BY <3>1, <4>1 DEF TypeOK
    <3> QED
      BY <3>1, <3>2 DEF FillsAlive
  <2>2. ASSUME fills' = fills PROVE FillsAlive
    BY <2>2 DEF FillsAlive
  <2> QED
    BY <2>1, <2>2 DEF Next, Tick, RegistrarStep, Register, StoreOrder, SetDeadline,
       IndexOrder, RegistrationFails, MatcherStep, BeginScan, ListOrders, FetchOrder,
       DeleteOrder, UnindexOrder, QuoteOrder, EndScan, ScanFails
<1> QED
  BY <1>1, TypeCorrect, MatcherSafety, PTL DEF Spec, NoFillOfTheDead
-----------------------------------------------------------------------------
(* One matcher implements the lifecycle *)

\* Nobody else takes orders out of the index: what is still to look at, and what
\* is in the matcher's hands, is there.
Owns(m) ==
  /\ matcher[m].todo \subseteq index
  /\ matcher[m].pc \in {"delete", "unindex", "quote", "fill"} =>
       matcher[m].cur \in index /\ matcher[m].cur \notin matcher[m].todo

OwnsIndex == \A m \in Matchers : Matchers = {m} => Owns(m)

\* A step of the matcher, of which nothing but itself may change.
LEMMA OwnsNext == TypeOK /\ OwnsIndex /\ [Next]_vars => OwnsIndex'
<1> SUFFICES ASSUME TypeOK, OwnsIndex, [Next]_vars, NEW m \in Matchers, Matchers = {m}
             PROVE  Owns(m)'
  BY DEF OwnsIndex
<1> DEFINE s == matcher[m]
<1>0. Owns(m) /\ s \in MatcherState /\ matcher \in [Matchers -> MatcherState]
  BY DEF OwnsIndex, TypeOK
<1> USE DEF Owns, MatcherState, redisVars, orderVars
<1>1. ASSUME index \subseteq index', UNCHANGED matcher PROVE Owns(m)'
  BY <1>0, <1>1
<1>2. CASE Tick
  BY <1>1, <1>2 DEF Tick
<1>3. ASSUME NEW o \in Orders, RegistrarStep(o) PROVE Owns(m)'
  BY <1>1, <1>3 DEF RegistrarStep, Register, StoreOrder, SetDeadline, IndexOrder,
                    RegistrationFails
<1>4. CASE MatcherStep(m)
  <2>1. CASE BeginScan(m)
    BY <1>0, <2>1 DEF BeginScan
  <2>2. CASE ListOrders(m)
    BY <1>0, <2>2 DEF ListOrders
  <2>3. ASSUME NEW o \in s.todo, FetchOrder(m, o) PROVE Owns(m)'
    BY <1>0, <2>3 DEF FetchOrder
  <2>4. CASE DeleteOrder(m)
    BY <1>0, <2>4 DEF DeleteOrder
  <2>5. CASE UnindexOrder(m)
    BY <1>0, <2>5 DEF UnindexOrder
  <2>6. CASE QuoteOrder(m)
    <3>1. CASE matcher' = [matcher EXCEPT ![m].pc = "next", ![m].cur = 0]
      BY <1>0, <2>6, <3>1 DEF QuoteOrder
    <3>2. CASE matcher' = [matcher EXCEPT ![m].pc = "fill"]
      BY <1>0, <2>6, <3>2 DEF QuoteOrder
    <3>3. CASE matcher' = [matcher EXCEPT ![m] = Idle]
      BY <1>0, <2>6, <3>3 DEF QuoteOrder, Idle
    <3> QED
      BY <2>6, <3>1, <3>2, <3>3 DEF QuoteOrder
  <2>7. CASE FillOrder(m)
    BY <1>0, <2>7 DEF FillOrder
  <2>8. CASE EndScan(m)
    BY <1>0, <2>8 DEF EndScan, Idle
  <2> QED
    BY <1>4, <2>1, <2>2, <2>3, <2>4, <2>5, <2>6, <2>7, <2>8 DEF MatcherStep
<1>5. CASE ScanFails(m)
  BY <1>0, <1>5 DEF ScanFails, Idle
<1>6. CASE UNCHANGED vars
  BY <1>1, <1>6 DEF vars
<1>7. ASSUME NEW n \in Matchers, MatcherStep(n) \/ ScanFails(n) PROVE Owns(m)'
  BY <1>4, <1>5, <1>7
<1> QED
  BY <1>2, <1>3, <1>6, <1>7 DEF Next

LEMMA OwnsSafety == Spec => []OwnsIndex
<1>1. Init => OwnsIndex
  BY DEF Init, OwnsIndex, Owns, Idle
<1> QED
  BY <1>1, TypeCorrect, OwnsNext, PTL DEF Spec

\* Orders that are not registered are absent, whatever their registrar does.
LEMMA OrderUnseen ==
  ASSUME NEW o \in Orders, registrar'[o] = registrar[o] \/ ~(Registered(o) \/ Registered(o)'),
         o \in index' <=> o \in index, Filled(o)' <=> Filled(o),
         expiresAt'[o] = expiresAt[o] \/ ~Registered(o)
  PROVE  StatusOf(o)' = StatusOf(o) /\ KnownExpiry'[o] = KnownExpiry[o]
BY DEF StatusOf, KnownExpiry, Registered

LEMMA Unseen ==
  ASSUME clock' = clock,
         \A o \in Orders : StatusOf(o)' = StatusOf(o) /\ KnownExpiry'[o] = KnownExpiry[o]
  PROVE  UNCHANGED Lifecycle!lifecycleVars
<1>1. Status' = Status
  BY DEF Status
<1>2. KnownExpiry' = KnownExpiry
  BY DEF KnownExpiry
<1> QED
  BY <1>1, <1>2 DEF Lifecycle!lifecycleVars

\* An order in hand leaves the index, filled or expired: it is settled.
LEMMA LeavingSettles ==
  ASSUME TypeOK, MatcherInv, NEW c \in Orders, c \in index, index' = index \ {c},
         UNCHANGED <<clock, expiresAt, registrar>>,
         \A o \in Orders \ {c} : Filled(o)' <=> Filled(o),
         Filled(c)' \/ (~Filled(c)' /\ expiresAt[c] < clock)
  PROVE  Lifecycle!Settle
<1>1. \A o \in Orders : StatusOf(o) \in Lifecycle!Outcomes \union {"absent", "pending"}
  BY DEF StatusOf, Lifecycle!Outcomes
<1>2. \A o \in Orders \ {c} : StatusOf(o)' = StatusOf(o)
  BY DEF StatusOf
<1>3. registrar[c] = "registered" /\ KnownExpiry[c] = expiresAt[c] /\ KnownExpiry' = KnownExpiry
  BY DEF TypeOK, KnownExpiry
<1>4. StatusOf(c) = "pending" /\ StatusOf(c)' = IF Filled(c)' THEN "promoted" ELSE "expired"
  BY <1>3 DEF StatusOf
<1>5. StatusOf(c)' = "expired" => KnownExpiry[c] <= clock
  <2>1. clock \in Nat /\ expiresAt[c] \in Nat
    BY Bounds DEF TypeOK, Times
  <2> QED
    BY <1>3, <1>4, <2>1
<1>6. /\ Status = [o \in Orders |-> StatusOf(o)]
      /\ Status' = [o \in Orders |-> StatusOf(o)']
  BY DEF Status
<1>7. Status' \in [Orders -> Lifecycle!Outcomes \union {"absent", "pending"}]
  BY <1>1, <1>2, <1>4, <1>6 DEF Lifecycle!Outcomes
<1>8. ASSUME NEW o \in Orders
      PROVE  \/ Status'[o] = Status[o]
             \/ /\ Status[o] = "pending" /\ Status'[o] \in Lifecycle!Outcomes
                /\ Status'[o] = "expired" => KnownExpiry[o] <= clock
  BY <1>2, <1>4, <1>5, <1>6 DEF Lifecycle!Outcomes
<1> QED
  BY <1>3, <1>7, <1>8 DEF Lifecycle!Settle

LEMMA LifecycleInit == Init => Lifecycle!Init
BY DEF Init, Lifecycle!Init, Status, StatusOf, KnownExpiry

LEMMA LifecycleNext ==
  ASSUME NEW m \in Matchers, Matchers = {m},
         TypeOK, TypeOK', MatcherInv, OwnsIndex, [Next]_vars
  PROVE  [Lifecycle!Next]_(Lifecycle!lifecycleVars)
<1> DEFINE s == matcher[m]
<1>0. /\ clock \in Nat /\ Owns(m) /\ Knows(m)
      /\ \A o \in Orders : Kept(o) /\ expiresAt[o] \in Nat
  BY Bounds DEF OwnsIndex, MatcherInv, TypeOK, Times
<1> USE DEF orderVars, redisVars
<1>1. ASSUME UNCHANGED <<clock, registrar, expiresAt, index, fills>>
      PROVE  UNCHANGED Lifecycle!lifecycleVars
  <2>1. \A o \in Orders : Filled(o)' <=> Filled(o)
    BY <1>1 DEF Filled
  <2> QED
    BY <1>1, <2>1, OrderUnseen, Unseen
<1>2. CASE Tick
  <2>1. \A o \in Orders : Filled(o)' <=> Filled(o)
    BY <1>2 DEF Tick, Filled
  <2>2. Status' = Status /\ KnownExpiry' = KnownExpiry
    BY <1>2, <2>1 DEF Tick, Status, StatusOf, KnownExpiry
  <2>3. clock' = clock + 1 /\ clock' \in 0..(MaxTime + Ttl)
    BY <1>0, <1>2, Bounds DEF Tick
  <2> QED
    BY <2>2, <2>3 DEF Lifecycle!Next, Lifecycle!Tick
<1>3. ASSUME NEW o \in Orders, RegistrarStep(o), ~IndexOrder(o)
      PROVE  UNCHANGED Lifecycle!lifecycleVars
  <2>1. UNCHANGED <<clock, index, fills>> /\ ~Registered(o) /\ ~Registered(o)'
    BY <1>3 DEF RegistrarStep, Register, StoreOrder, SetDeadline, RegistrationFails,
                Registered, TypeOK
  <2>2. \A q \in Orders \ {o} : registrar'[q] = registrar[q] /\ expiresAt'[q] = expiresAt[q]
    BY <1>3 DEF RegistrarStep, Register, StoreOrder, SetDeadline, RegistrationFails, TypeOK
  <2>3. \A q \in Orders : Filled(q)' <=> Filled(q)
    BY <2>1 DEF Filled
  <2> QED
    BY <2>1, <2>2, <2>3, OrderUnseen, Unseen
<1>4. ASSUME NEW o \in Orders, IndexOrder(o) PROVE Lifecycle!Next
  <2> DEFINE e == expiresAt[o]
  <2>1. /\ UNCHANGED <<clock, expiresAt, fills>> /\ index' = index \union {o}
        /\ ~Registered(o) /\ Registered(o)' /\ registrar[o] # "absent"
        /\ \A q \in Orders \ {o} : registrar'[q] = registrar[q]
    BY <1>4 DEF IndexOrder, TypeOK, Registered
  <2>2. e \in 0..(MaxTime + Ttl)
    <3>1. clock <= MaxTime /\ e <= clock + Ttl
      BY <1>0, <2>1 DEF Kept, TypeOK, Times
    <3> QED
      BY <1>0, <3>1, Bounds
  <2>3. \A q \in Orders : Filled(q)' <=> Filled(q)
    BY <2>1 DEF Filled
  <2>4. \A q \in Orders \ {o} : StatusOf(q)' = StatusOf(q) /\ KnownExpiry'[q] = KnownExpiry[q]
    BY <2>1, <2>3, OrderUnseen
  <2>5. StatusOf(o) = "absent" /\ StatusOf(o)' = "pending" /\ KnownExpiry'[o] = e
    BY <2>1 DEF StatusOf, KnownExpiry, Registered
  <2>6. Status[o] = "absent" /\ Status' = [Status EXCEPT ![o] = "pending"]
    BY <2>4, <2>5 DEF Status
  <2>7. KnownExpiry' = [KnownExpiry EXCEPT ![o] = e]
    BY <2>4, <2>5 DEF KnownExpiry
  <2>8. Lifecycle!Authorize(o, e)
    BY <2>1, <2>6, <2>7 DEF Lifecycle!Authorize
  <2> QED
    BY <2>2, <2>8 DEF Lifecycle!Next
<1>5. CASE \/ BeginScan(m) \/ ListOrders(m) \/ DeleteOrder(m) \/ QuoteOrder(m)
           \/ EndScan(m) \/ ScanFails(m) \/ UNCHANGED vars
           \/ \E o \in s.todo : FetchOrder(m, o)
  BY <1>1, <1>5 DEF BeginScan, ListOrders, DeleteOrder, QuoteOrder, EndScan, ScanFails,
                    FetchOrder, vars
<1>6. CASE UnindexOrder(m)
  <2>1. /\ s.cur \in Orders /\ s.cur \in index /\ Done(s.cur)
        /\ UNCHANGED <<clock, expiresAt, registrar, fills>> /\ index' = index \ {s.cur}
    BY <1>0, <1>6 DEF UnindexOrder, Owns, Knows
  <2>2. \A o \in Orders : Filled(o)' <=> Filled(o)
    BY <2>1 DEF Filled
  <2> QED
    BY <2>1, <2>2, LeavingSettles DEF Done, Lifecycle!Next
<1>7. CASE FillOrder(m)
  <2>0. PICK c \in Orders : c = s.cur
    BY <1>0, <1>7 DEF FillOrder, Knows
  <2>1. /\ c \in index
        /\ UNCHANGED <<clock, expiresAt, registrar>> /\ index' = index \ {c}
    BY <1>0, <1>7, <2>0 DEF FillOrder, Owns
  <2>2. /\ \A o \in Orders : o # c => fills'[m][o] = fills[m][o]
        /\ fills'[m][c] = fills[m][c] + 1 /\ fills[m][c] \in Nat
    <3>1. fills' = [fills EXCEPT ![m] = [fills[m] EXCEPT ![c] = fills[m][c] + 1]]
      BY <1>7, <2>0 DEF FillOrder
    <3> QED
      BY <2>1, <3>1 DEF TypeOK
  <2>3. \A o \in Orders \ {c} : Filled(o)' <=> Filled(o)
    BY <2>2 DEF Filled
  <2>4. Filled(c)'
    BY <2>2 DEF Filled
  <2> QED
    BY <2>1, <2>3, <2>4, LeavingSettles DEF Lifecycle!Next
<1>8. ASSUME NEW n \in Matchers, MatcherStep(n) \/ ScanFails(n)
      PROVE  [Lifecycle!Next]_(Lifecycle!lifecycleVars)
  <2>1. n = m
    OBVIOUS
  <2> QED
    BY <1>5, <1>6, <1>7, <1>8, <2>1 DEF MatcherStep
<1> QED
  BY <1>2, <1>3, <1>4, <1>5, <1>8 DEF Next

\* One matcher implements the lifecycle: every registered order waits, is settled
\* once, filled or expired, and never expires before its time.
THEOREM ImplementsLifecycleTheorem ==
  ASSUME NEW m \in Matchers, Matchers = {m}
  PROVE  Spec => ImplementsLifecycle
<1>1. TypeOK /\ TypeOK' /\ MatcherInv /\ OwnsIndex /\ [Next]_vars
      => [Lifecycle!Next]_(Lifecycle!lifecycleVars)
  BY LifecycleNext
<1> QED
  BY <1>1, TypeCorrect, MatcherSafety, OwnsSafety, LifecycleInit, PTL
     DEF Spec, ImplementsLifecycle, Lifecycle!Spec
==============================================================================
