--------------------------- MODULE Services_proofs ---------------------------
(* Theorems about the services of MCServices, for every value of their     *)
(* constants: PriorCache (C), BookFeed (F), HealthMonitor (H) and          *)
(* LegacyConsumer (L).                                                     *)
EXTENDS MCServices, FiniteSetTheorems, SequenceTheorems, TLAPS

Spec == Init /\ [][Next]_vars

(* Each service takes its own steps or none.                               *)
LEMMA ServicesRun == Spec => C!Spec /\ F!Spec /\ H!Spec /\ L!Spec
<1>1. Init => C!Init /\ F!Init /\ H!Init /\ L!Init
  BY DEF Init
<1>2. [Next]_vars => [C!Next]_(C!vars)
  BY DEF Next, vars, OfFeed, OfLegacy, C!vars, cacheVars
<1>3. [Next]_vars => [F!Next]_(F!vars)
  BY DEF Next, vars, OfFeed, OfLegacy, F!vars, feedVars
<1>4. [Next]_vars => [H!Next]_(H!vars)
  BY DEF Next, vars, OfFeed, OfLegacy, H!vars, healthVars
<1>5. [Next]_vars => [L!Next]_(L!vars)
  BY DEF Next, vars, OfFeed, OfLegacy, L!vars, L!streamVars, legacyVars
<1> QED
  BY <1>1, <1>2, <1>3, <1>4, <1>5, PTL DEF Spec, C!Spec, F!Spec, H!Spec, L!Spec

-----------------------------------------------------------------------------
(* PriorCache *)

LEMMA PriorSizes ==
  /\ PriorTtl \in Nat /\ PriorTtl > 0
  /\ MaxRows \in Nat /\ MaxFetch \in Nat /\ MaxCacheClock \in Nat
  /\ MaxRaises \in Nat /\ None \notin Nat
BY ServicesAssumption DEF C!PriorCacheAssumption

LEMMA PriorTypeInit == C!Init => C!TypeOK
BY ServicesAssumption
   DEF C!PriorCacheAssumption, C!Init, C!TypeOK, C!Rate, C!Idle, C!Unused

Known == IF cache.rate = None THEN 0 ELSE cache.rate

\* What every fetch starts from.
LEMMA StartedIs ==
  ASSUME C!TypeOK, NEW s, s \in {C!Started, [C!Started EXCEPT !.at = "missed"]}
  PROVE  /\ s.rate = None /\ s.begun = cacheClock /\ s.floor = Known
         /\ s.at \in {"idle", "missed"}
         /\ Known \in C!Rate
         /\ s \in [at : {"idle", "missed", "answered"}, rate : C!Rate \cup {None},
                   begun : 0..MaxCacheClock, floor : C!Rate]
<1>1. Known \in C!Rate /\ cacheClock \in 0..MaxCacheClock
  BY PriorSizes DEF C!TypeOK, C!Rate, Known
<1> QED
  BY <1>1 DEF C!Started, C!Idle, Known

LEMMA PriorTypeNext == C!TypeOK /\ [C!Next]_(C!vars) => C!TypeOK'
<1> SUFFICES ASSUME C!TypeOK, [C!Next]_(C!vars) PROVE C!TypeOK'
  OBVIOUS
<1> USE PriorSizes DEF C!Rate
<1>1. CASE C!Tick
  BY <1>1 DEF C!Tick, C!TypeOK
<1>2. CASE C!Insert
  BY <1>2 DEF C!Insert, C!TypeOK
<1>4. ASSUME NEW a \in Arbiters, NEW f, NEW rate \in C!Rate \cup {None},
             NEW why \in {"known", "unknown", "failed"},
             f.begun \in 0..MaxCacheClock, f.floor \in C!Rate,
             C!Use(a, f, rate, why)
      PROVE  /\ fetch' \in [Arbiters -> [at : {"idle", "missed", "answered"},
                              rate : C!Rate \cup {None}, begun : 0..MaxCacheClock,
                              floor : C!Rate]]
             /\ prior' \in [rate : C!Rate \cup {None}, begun : 0..MaxCacheClock,
                            floor : C!Rate, why : {"unused", "known", "unknown", "failed"}]
  BY <1>4 DEF C!Use, C!TypeOK, C!Idle
<1>5. ASSUME NEW a \in Arbiters,
             C!Hit(a) \/ C!Miss(a) \/ C!LegacyMiss(a) \/ C!Query(a)
               \/ C!QueryNothing(a) \/ C!Store(a) \/ C!FetchFails(a)
      PROVE  C!TypeOK'
  <2>0. /\ C!Started.begun \in 0..MaxCacheClock /\ C!Started.floor \in C!Rate
        /\ fetch[a].begun \in 0..MaxCacheClock /\ fetch[a].floor \in C!Rate
        /\ fetch[a].rate \in C!Rate \cup {None} /\ cache.rate \in C!Rate \cup {None}
    BY StartedIs DEF C!TypeOK
  <2>1. CASE C!Hit(a)
    BY <2>0, <2>1, <1>4 DEF C!Hit, C!TypeOK
  <2>2. CASE C!Miss(a)
    BY <2>0, <2>2, StartedIs DEF C!Miss, C!TypeOK
  <2>3. CASE C!LegacyMiss(a)
    BY <2>0, <2>3, <1>4 DEF C!LegacyMiss, C!TypeOK
  <2>4. CASE C!Query(a)
    BY <2>0, <2>4 DEF C!Query, C!TypeOK
  <2>5. CASE C!QueryNothing(a)
    BY <2>0, <2>5, <1>4 DEF C!QueryNothing, C!TypeOK
  <2>6. CASE C!Store(a)
    <3>1. cacheClock + PriorTtl \in 0..(MaxCacheClock + PriorTtl)
      BY DEF C!TypeOK
    <3> QED
      BY <2>0, <2>6, <3>1, <1>4 DEF C!Store, C!TypeOK
  <2>7. CASE C!FetchFails(a)
    <3>1. lost' \in 0..MaxRaises
      BY <2>7 DEF C!FetchFails, C!Fails, C!TypeOK
    <3> QED
      BY <2>0, <2>7, <3>1, <1>4 DEF C!FetchFails, C!TypeOK
  <2> QED
    BY <1>5, <2>1, <2>2, <2>3, <2>4, <2>5, <2>6, <2>7
<1>6. CASE UNCHANGED C!vars
  BY <1>6 DEF C!vars, C!TypeOK
<1> QED
  BY <1>1, <1>2, <1>5, <1>6 DEF C!Next

\* The rows there were as a tick began only grow, up to those there are.
Growing ==
  /\ \A t, u \in 0..cacheClock : t <= u => rowsAt[t] <= rowsAt[u]
  /\ rowsAt[cacheClock] <= rows

\* A fetch in progress began not longer ago than it may take, and an answer
\* counts at least the rows there were then, and those its floor knew.
Fetching(a) ==
  fetch[a].at /= "idle" =>
    /\ fetch[a].begun <= cacheClock /\ cacheClock <= fetch[a].begun + MaxFetch
    /\ fetch[a].floor <= rows
    /\ fetch[a].at = "answered" =>
         /\ fetch[a].rate \in C!Rate /\ fetch[a].rate <= rows
         /\ fetch[a].floor <= fetch[a].rate
         /\ rowsAt[fetch[a].begun] <= fetch[a].rate

\* A cached rate counts what was there a fetch before it was set.
CacheKnows ==
  /\ cache.rate = None => cache.expiry = 0
  /\ cache.expiry <= cacheClock + PriorTtl
  /\ cache.rate /= None =>
       /\ cache.rate <= rows
       /\ \A u \in 0..cacheClock :
            u + PriorTtl + MaxFetch <= cache.expiry => rowsAt[u] <= cache.rate

PriorInv ==
  /\ Growing
  /\ \A a \in Arbiters : Fetching(a)
  /\ CacheKnows
  /\ prior.begun <= cacheClock
  /\ C!PriorIsFresh

LEMMA PriorInit == C!Init => PriorInv
BY PriorSizes
   DEF C!Init, PriorInv, Growing, Fetching, CacheKnows, C!PriorIsFresh, C!StalenessBounded,
       C!NoRegression, C!UninformativeIsEarned, C!Idle, C!Unused

LEMMA RowsAtType ==
  C!TypeOK => \A u \in Int : 0 <= u /\ u <= MaxCacheClock => rowsAt[u] \in Nat
BY PriorSizes DEF C!TypeOK, C!Rate

\* A prior stays fresh as long as the past that it is compared with.
LEMMA PriorKept ==
  ASSUME C!TypeOK, PriorInv, UNCHANGED prior, cacheClock <= cacheClock',
         \A u \in 0..cacheClock : rowsAt'[u] = rowsAt[u]
  PROVE  C!PriorIsFresh'
<1>1. prior.begun \in Nat /\ prior.begun <= cacheClock /\ cacheClock \in Nat
  BY PriorSizes DEF C!TypeOK, PriorInv
<1>2. C!StalenessBounded'
  BY <1>1, PriorSizes DEF PriorInv, C!PriorIsFresh, C!StalenessBounded
<1>3. C!NoRegression' /\ C!UninformativeIsEarned'
  BY <1>1 DEF PriorInv, C!PriorIsFresh, C!NoRegression, C!UninformativeIsEarned
<1> QED
  BY <1>2, <1>3 DEF C!PriorIsFresh

\* A fetch that ends with a rate that counts what was there at its begin.
LEMMA UseKnown ==
  ASSUME C!TypeOK, PriorInv, NEW a \in Arbiters, NEW f, NEW rate \in C!Rate,
         f.begun \in 0..cacheClock, f.floor <= rate,
         \A u \in 0..f.begun : u + PriorTtl + MaxFetch <= f.begun + 1 => ~(rate < rowsAt[u]),
         C!Use(a, f, rate, "known"), UNCHANGED <<cacheClock, rowsAt>>
  PROVE  prior'.begun <= cacheClock /\ C!PriorIsFresh'
<1>1. /\ prior'.begun = f.begun /\ prior'.rate = rate /\ prior'.floor = f.floor
      /\ rate /= None /\ cacheClock \in Nat /\ f.begun \in Nat
      /\ f.begun \in 0..MaxCacheClock
  BY PriorSizes DEF C!Use, C!TypeOK, C!Rate
<1>2. C!StalenessBounded'
  <2> DEFINE oldest == f.begun - PriorTtl - MaxFetch + 1
  <2>1. SUFFICES ASSUME oldest >= 0 PROVE rate >= rowsAt[oldest]
    BY <1>1 DEF C!StalenessBounded
  <2>2. oldest \in 0..f.begun /\ oldest + PriorTtl + MaxFetch <= f.begun + 1
    BY <1>1, <2>1, PriorSizes
  <2>3. rowsAt[oldest] \in Nat /\ rate \in Nat
    BY <1>1, <2>2, PriorSizes, RowsAtType DEF C!Rate
  <2> QED
    BY <2>2, <2>3
<1>3. C!NoRegression' /\ C!UninformativeIsEarned'
  BY <1>1, PriorSizes DEF C!NoRegression, C!UninformativeIsEarned, C!Rate
<1> QED
  BY <1>1, <1>2, <1>3 DEF C!PriorIsFresh

\* A fetch that ends without a rate.
LEMMA UseUnknown ==
  ASSUME C!TypeOK, NEW a \in Arbiters, NEW f, NEW why \in {"unknown", "failed"},
         f.begun \in 0..cacheClock, why = "unknown" => rowsAt[f.begun] = 0,
         C!Use(a, f, None, why), UNCHANGED <<cacheClock, rowsAt>>
  PROVE  prior'.begun <= cacheClock /\ C!PriorIsFresh'
<1>1. prior'.begun = f.begun /\ prior'.rate = None /\ prior'.why = why
  BY DEF C!Use
<1>2. f.begun <= cacheClock
  BY PriorSizes DEF C!TypeOK
<1> QED
  BY <1>1, <1>2
     DEF C!PriorIsFresh, C!StalenessBounded, C!NoRegression, C!UninformativeIsEarned

LEMMA PriorNext == C!TypeOK /\ C!TypeOK' /\ PriorInv /\ [C!Next]_(C!vars) => PriorInv'
<1> SUFFICES ASSUME C!TypeOK, C!TypeOK', PriorInv, [C!Next]_(C!vars) PROVE PriorInv'
  OBVIOUS
<1>0. /\ cacheClock \in Nat /\ cacheClock <= MaxCacheClock /\ rows \in Nat
      /\ prior.begun \in Nat /\ prior.begun <= cacheClock
  BY PriorSizes DEF C!TypeOK, C!Rate, PriorInv
<1>1. CASE C!Tick
  <2>1. /\ cacheClock' = cacheClock + 1 /\ cacheClock + 1 <= MaxCacheClock
        /\ rowsAt'[cacheClock + 1] = rows
        /\ \A u \in 0..cacheClock : rowsAt'[u] = rowsAt[u]
        /\ UNCHANGED <<rows, cache, fetch, prior>>
    BY <1>0, <1>1, PriorSizes DEF C!Tick, C!TypeOK
  <2>2. Growing'
    <3>1. ASSUME NEW t \in 0..(cacheClock + 1), NEW u \in 0..(cacheClock + 1), t <= u
          PROVE  rowsAt'[t] <= rowsAt'[u]
      <4>1. CASE u = cacheClock + 1 /\ t = cacheClock + 1
        BY <1>0, <2>1, <4>1
      <4>2. CASE u = cacheClock + 1 /\ t \in 0..cacheClock
        <5>1. rowsAt[t] <= rowsAt[cacheClock] /\ rowsAt[cacheClock] <= rows
          BY <1>0, <4>2 DEF PriorInv, Growing
        <5> QED
          <6>1. rowsAt[t] \in Nat /\ rowsAt[cacheClock] \in Nat
            BY <1>0, <4>2, PriorSizes, RowsAtType
          <6> QED
            BY <1>0, <2>1, <4>2, <5>1, <6>1
      <4>3. CASE u \in 0..cacheClock /\ t \in 0..cacheClock
        BY <2>1, <3>1, <4>3 DEF PriorInv, Growing
      <4> QED
        BY <1>0, <3>1, <4>1, <4>2, <4>3
    <3> QED
      BY <1>0, <2>1, <3>1 DEF Growing
  <2>3. ASSUME NEW a \in Arbiters PROVE Fetching(a)'
    <3>1. fetch[a].begun \in Nat
      BY DEF C!TypeOK
    <3>2. fetch[a].at /= "idle" => cacheClock < fetch[a].begun + MaxFetch
      BY <1>1 DEF C!Tick
    <3> QED
      BY <1>0, <2>1, <3>1, <3>2, PriorSizes DEF PriorInv, Fetching
  <2>4. CacheKnows'
    <3>1. ASSUME cache.rate /= None, NEW u \in 0..(cacheClock + 1),
                 u + PriorTtl + MaxFetch <= cache.expiry
          PROVE  rowsAt'[u] <= cache.rate
      <4>1. cache.expiry \in Nat /\ cache.expiry <= cacheClock + PriorTtl
        BY <1>0, PriorSizes DEF C!TypeOK, PriorInv, CacheKnows
      <4>2. u \in 0..cacheClock
        BY <1>0, <3>1, <4>1, PriorSizes
      <4> QED
        BY <2>1, <3>1, <4>2 DEF PriorInv, CacheKnows
    <3>2. cache.expiry \in Nat
      BY PriorSizes DEF C!TypeOK
    <3> QED
      BY <1>0, <2>1, <3>1, <3>2, PriorSizes DEF PriorInv, CacheKnows
  <2>5. C!PriorIsFresh'
    BY <1>0, <2>1, PriorKept
  <2> QED
    BY <1>0, <2>1, <2>2, <2>3, <2>4, <2>5 DEF PriorInv
<1>2. CASE C!Insert
  <2>1. /\ rows' = rows + 1
        /\ UNCHANGED <<cacheClock, cache, fetch, prior, lost, rowsAt>>
    BY <1>2 DEF C!Insert
  <2>2. C!PriorIsFresh'
    BY <1>0, <2>1, PriorKept
  <2>3. /\ rowsAt[cacheClock] \in Nat
        /\ cache.rate /= None => cache.rate \in Nat
        /\ \A a \in Arbiters : fetch[a].floor \in Nat
        /\ \A rate \in C!Rate : rate \in Nat
    <3>1. rowsAt[cacheClock] \in Nat
      BY <1>0, PriorSizes, RowsAtType
    <3>2. \A rate \in C!Rate : rate \in Nat
      BY PriorSizes DEF C!Rate
    <3> QED
      BY <3>1, <3>2 DEF C!TypeOK
  <2>4. Growing'
    BY <1>0, <2>1, <2>3 DEF PriorInv, Growing
  <2>5. \A a \in Arbiters : Fetching(a)'
    BY <1>0, <2>1, <2>3 DEF PriorInv, Fetching
  <2>6. CacheKnows'
    BY <1>0, <2>1, <2>3 DEF PriorInv, CacheKnows
  <2> QED
    BY <1>0, <2>1, <2>2, <2>4, <2>5, <2>6 DEF PriorInv
<1>3. ASSUME NEW a \in Arbiters,
             C!Hit(a) \/ C!Miss(a) \/ C!LegacyMiss(a) \/ C!Query(a)
               \/ C!QueryNothing(a) \/ C!Store(a) \/ C!FetchFails(a)
      PROVE  PriorInv'
  <2>1. /\ UNCHANGED <<cacheClock, rows, rowsAt>>
        /\ \A b \in Arbiters : b /= a => fetch'[b] = fetch[b]
    BY <1>3 DEF C!Hit, C!Miss, C!LegacyMiss, C!Query, C!QueryNothing, C!Store,
                C!FetchFails, C!Use, C!TypeOK
  <2>2. Growing' /\ \A b \in Arbiters : b /= a => Fetching(b)'
    BY <2>1 DEF PriorInv, Growing, Fetching
  <2>3. SUFFICES Fetching(a)' /\ CacheKnows' /\ prior'.begun <= cacheClock /\ C!PriorIsFresh'
    BY <2>1, <2>2 DEF PriorInv
  <2>4. ASSUME NEW f, NEW rate, NEW why, C!Use(a, f, rate, why) PROVE Fetching(a)'
    BY <2>4 DEF C!Use, C!TypeOK, C!Idle, Fetching
  <2>5. ASSUME UNCHANGED cache PROVE CacheKnows'
    BY <2>1, <2>5 DEF PriorInv, CacheKnows
  <2>6. /\ C!Started.begun = cacheClock /\ C!Started.floor = Known
        /\ cacheClock \in 0..cacheClock
        /\ fetch[a].begun \in Nat /\ fetch[a].begun \in 0..MaxCacheClock
        /\ fetch[a].floor \in Nat
    <3>1. C!Started.begun = cacheClock /\ C!Started.floor = Known
      BY StartedIs
    <3>2. /\ fetch[a].begun \in Nat /\ fetch[a].begun \in 0..MaxCacheClock
          /\ fetch[a].floor \in Nat
      <4>1. fetch[a].begun \in 0..MaxCacheClock /\ fetch[a].floor \in C!Rate
        BY DEF C!TypeOK
      <4> QED
        BY <4>1, PriorSizes DEF C!Rate
    <3> QED
      BY <1>0, <3>1, <3>2
  <2>7. fetch[a].at /= "idle" => fetch[a].begun \in 0..cacheClock
    BY <1>0, <2>6 DEF PriorInv, Fetching
  <2>8. CASE C!Hit(a)
    <3>1. cache.rate \in C!Rate /\ cache.rate /= None /\ Known = cache.rate
      BY <1>0, <2>8, PriorSizes DEF C!Hit, C!Visible, C!TypeOK, PriorInv, CacheKnows, Known
    <3>2. ASSUME NEW u \in 0..cacheClock, u + PriorTtl + MaxFetch <= cacheClock + 1
          PROVE  ~(cache.rate < rowsAt[u])
      <4>1. cache.expiry \in Nat /\ cache.expiry > cacheClock /\ u \in Nat
        BY <2>8, PriorSizes DEF C!Hit, C!Visible, C!TypeOK
      <4>2. rowsAt[u] <= cache.rate
        BY <1>0, <3>1, <3>2, <4>1, PriorSizes DEF PriorInv, CacheKnows
      <4>3. rowsAt[u] \in Nat /\ cache.rate \in Nat
        BY <1>0, <3>1, PriorSizes, RowsAtType DEF C!Rate
      <4> QED
        BY <4>2, <4>3
    <3>3. C!Started.floor <= cache.rate
      BY <2>6, <3>1, PriorSizes DEF C!Rate
    <3>4. C!Use(a, C!Started, cache.rate, "known") /\ UNCHANGED cache
      BY <2>8 DEF C!Hit
    <3>5. prior'.begun <= cacheClock /\ C!PriorIsFresh'
      <4> HIDE DEF C!Started
      <4> QED
        BY <2>1, <2>6, <3>1, <3>2, <3>3, <3>4, UseKnown
    <3> QED
      BY <2>4, <2>5, <3>4, <3>5
  <2>9. CASE C!Miss(a)
    <3> DEFINE s == [C!Started EXCEPT !.at = "missed"]
    <3>1. s.begun = cacheClock /\ s.floor = Known /\ s.at = "missed"
      BY StartedIs DEF C!Started, C!Idle
    <3>2. fetch'[a] = s /\ UNCHANGED <<cache, prior>>
      BY <2>9 DEF C!Miss, C!TypeOK
    <3>3. Known <= rows
      BY <1>0 DEF PriorInv, CacheKnows, Known
    <3> HIDE DEF s
    <3>4. Fetching(a)'
      BY <1>0, <2>1, <3>1, <3>2, <3>3, PriorSizes DEF Fetching
    <3>5. C!PriorIsFresh'
      BY <1>0, <2>1, <3>2, PriorKept
    <3> QED
      BY <1>0, <2>5, <3>2, <3>4, <3>5
  <2>10. CASE C!LegacyMiss(a)
    <3>1. C!Use(a, C!Started, None, "failed") /\ UNCHANGED cache
      BY <2>10 DEF C!LegacyMiss
    <3>2. prior'.begun <= cacheClock /\ C!PriorIsFresh'
      BY <2>1, <2>6, <3>1, UseUnknown
    <3> QED
      BY <2>4, <2>5, <3>1, <3>2
  <2>11. CASE C!Query(a)
    <3>1. /\ fetch'[a].at = "answered" /\ fetch'[a].rate = rows
          /\ fetch'[a].begun = fetch[a].begun /\ fetch'[a].floor = fetch[a].floor
          /\ fetch[a].at /= "idle"
          /\ UNCHANGED <<cache, prior>>
      BY <2>11 DEF C!Query, C!TypeOK
    <3>2. rowsAt[fetch[a].begun] <= rows
      <4>1. rowsAt[fetch[a].begun] <= rowsAt[cacheClock] /\ rowsAt[cacheClock] <= rows
        BY <1>0, <2>7, <3>1 DEF PriorInv, Growing
      <4> QED
        BY <1>0, <2>6, <4>1, PriorSizes, RowsAtType
    <3>3. Fetching(a)'
      BY <1>0, <2>1, <3>1, <3>2 DEF C!TypeOK, PriorInv, Fetching
    <3>4. C!PriorIsFresh'
      BY <1>0, <2>1, <3>1, PriorKept
    <3> QED
      BY <1>0, <2>5, <3>1, <3>3, <3>4
  <2>12. CASE C!QueryNothing(a)
    <3>1. C!Use(a, fetch[a], None, "unknown") /\ UNCHANGED cache /\ rows = 0
          /\ fetch[a].at /= "idle"
      BY <2>12 DEF C!QueryNothing
    <3>2. rowsAt[fetch[a].begun] = 0
      <4>1. rowsAt[fetch[a].begun] <= rowsAt[cacheClock] /\ rowsAt[cacheClock] <= rows
        BY <1>0, <2>7, <3>1 DEF PriorInv, Growing
      <4> QED
        BY <1>0, <2>6, <3>1, <4>1, RowsAtType
    <3>3. prior'.begun <= cacheClock /\ C!PriorIsFresh'
      BY <2>1, <2>7, <3>1, <3>2, UseUnknown
    <3> QED
      BY <2>4, <2>5, <3>1, <3>3
  <2>13. CASE C!Store(a)
    <3> DEFINE f == fetch[a]
    <3>1. /\ C!Use(a, f, f.rate, "known") /\ f.at = "answered"
          /\ cache' = [rate |-> f.rate, expiry |-> cacheClock + PriorTtl]
      BY <2>13 DEF C!Store
    <3>2. /\ f.begun \in 0..cacheClock /\ cacheClock <= f.begun + MaxFetch
          /\ f.rate \in C!Rate /\ f.rate \in Nat /\ f.rate <= rows /\ f.floor <= f.rate
          /\ rowsAt[f.begun] <= f.rate /\ f.rate /= None
      BY <2>7, <3>1, PriorSizes DEF PriorInv, Fetching, C!Rate
    <3>3. ASSUME NEW u \in 0..f.begun PROVE rowsAt[u] <= f.rate /\ rowsAt[u] \in Nat
      <4>1. u \in 0..cacheClock
        BY <1>0, <2>6, <3>2
      <4>2. rowsAt[u] <= rowsAt[f.begun]
        BY <2>6, <3>2, <4>1 DEF PriorInv, Growing
      <4>3. rowsAt[u] \in Nat /\ rowsAt[f.begun] \in Nat
        BY <1>0, <2>6, <4>1, PriorSizes, RowsAtType
      <4> QED
        BY <3>2, <4>2, <4>3
    <3>4. prior'.begun <= cacheClock /\ C!PriorIsFresh'
      <4>1. \A u \in 0..f.begun :
              u + PriorTtl + MaxFetch <= f.begun + 1 => ~(f.rate < rowsAt[u])
        BY <3>2, <3>3
      <4> HIDE DEF f
      <4> QED
        BY <2>1, <3>1, <3>2, <4>1, UseKnown
    <3>5. CacheKnows'
      <4>1. ASSUME NEW u \in 0..cacheClock,
                   u + PriorTtl + MaxFetch <= cacheClock + PriorTtl
            PROVE  rowsAt[u] <= f.rate
        <5>1. u \in 0..f.begun
          BY <1>0, <2>6, <3>2, <4>1, PriorSizes
        <5> QED
          BY <3>3, <5>1
      <4> QED
        BY <1>0, <2>1, <3>1, <3>2, <4>1, PriorSizes DEF CacheKnows
    <3> QED
      BY <2>4, <3>1, <3>4, <3>5
  <2>14. CASE C!FetchFails(a)
    <3>1. C!Use(a, fetch[a], None, "failed") /\ UNCHANGED cache /\ fetch[a].at /= "idle"
      BY <2>14 DEF C!FetchFails
    <3>2. prior'.begun <= cacheClock /\ C!PriorIsFresh'
      BY <2>1, <2>7, <3>1, UseUnknown
    <3> QED
      BY <2>4, <2>5, <3>1, <3>2
  <2> QED
    BY <1>3, <2>8, <2>9, <2>10, <2>11, <2>12, <2>13, <2>14
<1>4. CASE UNCHANGED C!vars
  <2>1. UNCHANGED <<cacheClock, rows, cache, fetch, prior, rowsAt>>
    BY <1>4 DEF C!vars
  <2>2. C!PriorIsFresh'
    BY <1>0, <2>1, PriorKept
  <2> QED
    BY <1>0, <2>1, <2>2 DEF PriorInv, Growing, Fetching, CacheKnows
<1> QED
  BY <1>1, <1>2, <1>3, <1>4 DEF C!Next

\* A prior is never older than a TTL and a fetch, never older than one known
\* before, and uninformative only when that is earned, for any number of
\* arbiters whose fetches overlap, any TTL and any failures.
THEOREM PriorIsFreshTheorem == Spec => []PriorIsFresh
<1>1. C!Spec => []C!TypeOK
  BY PriorTypeInit, PriorTypeNext, PTL DEF C!Spec
<1>2. C!Spec => []PriorInv
  BY <1>1, PriorInit, PriorNext, PTL DEF C!Spec
<1>3. PriorInv => PriorIsFresh
  BY DEF PriorInv, PriorIsFresh
<1> QED
  BY <1>2, <1>3, ServicesRun, PTL

-----------------------------------------------------------------------------
(* BookFeed *)

LEMMA FeedSizes ==
  /\ BookTtl \in Nat /\ MaxUpdates \in Nat /\ MaxFeedClock \in Nat /\ MaxFailures \in Nat
BY ServicesAssumption DEF F!BookFeedAssumption

\* The size of the dict of books.
LEMMA CachedSize ==
  ASSUME NEW T, T \subseteq Symbols
  PROVE  F!Cardinality(T) \in 0..F!Cardinality(Symbols)
<1>1. IsFiniteSet(Symbols)
  BY ServicesAssumption DEF F!BookFeedAssumption, F!IsFiniteSet, IsFiniteSet
<1>2. Cardinality(T) \in Nat /\ Cardinality(Symbols) \in Nat
      /\ Cardinality(T) <= Cardinality(Symbols)
  BY <1>1, FS_Subset, FS_CardinalityType
<1>3. F!Cardinality(T) = Cardinality(T) /\ F!Cardinality(Symbols) = Cardinality(Symbols)
  BY DEF F!Cardinality, Cardinality
<1> QED
  BY <1>2, <1>3

FlushState == [at : {"asleep", "walking", "sending"}, size : 0..F!Cardinality(Symbols),
               todo : SUBSET Symbols, pipe : [Symbols -> F!Update]]

\* The flush task between two passes.
LEMMA AsleepIs ==
  /\ F!Asleep.at = "asleep" /\ \A s \in Symbols : F!Asleep.pipe[s] = 0
  /\ F!Asleep \in FlushState
<1>1. 0 \in 0..F!Cardinality(Symbols)
  BY CachedSize, {} \subseteq Symbols
<1> QED
  BY <1>1, FeedSizes DEF F!Asleep, F!NoBook, F!Update, FlushState

LEMMA NoBooks == [s \in Symbols |-> 0] \in [Symbols -> F!Update]
BY FeedSizes DEF F!Update

LEMMA FeedTypeInit == F!Init => F!TypeOK
<1>1. 0 \in F!Update /\ 0 \in 0..(MaxFeedClock + BookTtl) /\ 0 \in 0..MaxFeedClock
      /\ 0 \in 0..MaxFailures
  BY FeedSizes DEF F!Update
<1> SUFFICES ASSUME F!Init PROVE F!TypeOK
  OBVIOUS
<1>2. sent \in [Symbols -> F!Update] /\ memory \in [Symbols -> F!Update]
  BY NoBooks DEF F!Init, F!NoBook
<1>3. redis \in [Symbols -> [book : F!Update, expiry : 0..(MaxFeedClock + BookTtl)]]
  BY <1>1 DEF F!Init, F!NoBook
<1>4. flush \in FlushState
  BY AsleepIs DEF F!Init
<1> QED
  BY <1>1, <1>2, <1>3, <1>4 DEF F!Init, F!TypeOK, FlushState

\* What a write to Redis leaves there.
LEMMA SetIs ==
  ASSUME F!TypeOK, NEW S, F!SetWithTtl(S)
  PROVE  /\ redis' \in [Symbols -> [book : F!Update, expiry : 0..(MaxFeedClock + BookTtl)]]
         /\ \A s \in Symbols :
              IF s \in S THEN redis'[s].book = flush.pipe[s]
                              /\ redis'[s].expiry = feedClock + BookTtl
                         ELSE redis'[s] = redis[s]
<1>1. feedClock + BookTtl \in 0..(MaxFeedClock + BookTtl)
  BY FeedSizes DEF F!TypeOK
<1>2. \A s \in Symbols : flush.pipe[s] \in F!Update
  BY DEF F!TypeOK
<1> QED
  BY <1>1, <1>2 DEF F!TypeOK, F!SetWithTtl

LEMMA FeedTypeNext == F!TypeOK /\ [F!Next]_(F!vars) => F!TypeOK'
<1> SUFFICES ASSUME F!TypeOK, [F!Next]_(F!vars) PROVE F!TypeOK'
  OBVIOUS
<1> USE FeedSizes DEF F!Update
<1>1. CASE F!Tick
  BY <1>1 DEF F!Tick, F!TypeOK
<1>2. CASE F!Run
  BY <1>2 DEF F!Run, F!TypeOK
<1>3. CASE F!Stop
  <2>1. memory' \in [Symbols -> F!Update] /\ flush' \in FlushState
    BY <1>3, AsleepIs, NoBooks DEF F!Stop, F!NoBook
  <2>2. feedFailures' \in 0..MaxFailures
    BY <1>3 DEF F!Stop, F!TypeOK
  <2> QED
    BY <1>3, <2>1, <2>2 DEF F!Stop, F!TypeOK, FlushState
<1>4. ASSUME NEW s \in Symbols, F!Receive(s) PROVE F!TypeOK'
  BY <1>4 DEF F!Receive, F!TypeOK
<1>5. CASE F!BeginFlush
  <2>1. F!Cached \subseteq Symbols /\ F!Cardinality(F!Cached) \in 0..F!Cardinality(Symbols)
    BY CachedSize DEF F!Cached
  <2>2. flush' \in FlushState
    BY <1>5, <2>1, AsleepIs DEF F!BeginFlush, FlushState
  <2> QED
    BY <1>5, <2>2 DEF F!BeginFlush, F!TypeOK, FlushState
<1>6. ASSUME NEW s \in Symbols, F!Visit(s) PROVE F!TypeOK'
  <2>1. flush' \in FlushState
    BY <1>6 DEF F!Visit, F!TypeOK, FlushState
  <2> QED
    BY <1>6, <2>1 DEF F!Visit, F!TypeOK, FlushState
<1>7. CASE F!EndWalk
  BY <1>7 DEF F!EndWalk, F!TypeOK
<1>8. CASE F!AbortWalk
  BY <1>8, AsleepIs DEF F!AbortWalk, F!TypeOK, FlushState
<1>9. CASE F!Execute
  BY <1>9, SetIs, AsleepIs DEF F!Execute, F!TypeOK, FlushState
<1>10. CASE F!ExecuteFails
  BY <1>10, SetIs, AsleepIs DEF F!ExecuteFails, F!TypeOK, FlushState
<1>11. CASE UNCHANGED F!vars
  BY <1>11 DEF F!vars, F!TypeOK
<1> QED
  BY <1>1, <1>2, <1>3, <1>4, <1>5, <1>6, <1>7, <1>8, <1>9, <1>10, <1>11
     DEF F!Next, F!FlushStep

\* Books get older on the way from the feed to Redis: what is about to be
\* written is not older than what Redis holds.
Ordered(s) ==
  /\ memory[s] <= sent[s] /\ redis[s].book <= sent[s]
  /\ memory[s] /= 0 => redis[s].book <= memory[s]
  /\ flush.pipe[s] /= 0 => redis[s].book <= flush.pipe[s] /\ flush.pipe[s] <= memory[s]

\* A connector that is down has nothing left to write.
Quiet ==
  ~running =>
    /\ flush.at = "asleep"
    /\ \A s \in Symbols : redis[s].expiry <= downSince + BookTtl

FeedInv ==
  /\ \A s \in Symbols : Ordered(s) /\ redis[s].expiry <= feedClock + BookTtl
  /\ flush.at = "asleep" => \A s \in Symbols : flush.pipe[s] = 0
  /\ Quiet

LEMMA FeedInvInit == F!Init => FeedInv
<1> SUFFICES ASSUME F!Init PROVE FeedInv
  OBVIOUS
<1>1. ASSUME NEW s \in Symbols
      PROVE  memory[s] = 0 /\ sent[s] = 0 /\ flush.pipe[s] = 0
             /\ redis[s].book = 0 /\ redis[s].expiry = 0
  <2>1. flush.pipe[s] = 0
    BY AsleepIs DEF F!Init
  <2> QED
    BY <2>1 DEF F!Init, F!NoBook
<1> QED
  BY <1>1, AsleepIs, FeedSizes DEF F!Init, FeedInv, Ordered, Quiet

\* The types that the arithmetic of the books needs.
LEMMA FeedNumbers ==
  ASSUME F!TypeOK, NEW s \in Symbols
  PROVE  /\ sent[s] \in Nat /\ memory[s] \in Nat /\ flush.pipe[s] \in Nat
         /\ redis[s].book \in Nat /\ redis[s].expiry \in Nat
         /\ feedClock \in Nat /\ downSince \in Nat
<1>1. /\ sent[s] \in F!Update /\ memory[s] \in F!Update /\ flush.pipe[s] \in F!Update
      /\ redis[s].book \in F!Update /\ redis[s].expiry \in 0..(MaxFeedClock + BookTtl)
      /\ feedClock \in 0..MaxFeedClock /\ downSince \in 0..MaxFeedClock
  BY DEF F!TypeOK
<1> QED
  BY <1>1, FeedSizes DEF F!Update

\* A write to Redis out of the pipe brings no older book.
LEMMA WriteKept ==
  ASSUME F!TypeOK, FeedInv, NEW S, S \subseteq F!InPipe, F!SetWithTtl(S),
         UNCHANGED <<feedClock, sent, running, memory, downSince>>, running,
         flush' = F!Asleep
  PROVE  FeedInv' /\ F!NeverBackwards
<1>1. ASSUME NEW s \in Symbols
      PROVE  Ordered(s)' /\ redis'[s].expiry <= feedClock + BookTtl
             /\ redis'[s].book >= redis[s].book
  <2>1. CASE s \in S
    <3>1. redis'[s].book = flush.pipe[s] /\ redis'[s].expiry = feedClock + BookTtl
          /\ flush.pipe[s] /= 0
      BY <2>1, SetIs DEF F!InPipe, F!NoBook
    <3> QED
      BY <3>1, FeedNumbers, FeedSizes, AsleepIs DEF FeedInv, Ordered
  <2>2. CASE s \notin S
    <3>1. redis'[s] = redis[s]
      BY <2>2, SetIs
    <3> QED
      BY <3>1, FeedNumbers, FeedSizes, AsleepIs DEF FeedInv, Ordered
  <2> QED
    BY <2>1, <2>2
<1> QED
  BY <1>1, AsleepIs DEF FeedInv, Quiet, F!NeverBackwards

LEMMA FeedInvNext ==
  F!TypeOK /\ FeedInv /\ [F!Next]_(F!vars) => FeedInv' /\ F!NeverBackwards
<1> SUFFICES ASSUME F!TypeOK, FeedInv, [F!Next]_(F!vars) PROVE FeedInv' /\ F!NeverBackwards
  OBVIOUS
<1> USE FeedSizes DEF F!NoBook
<1>0. \A s \in Symbols : /\ sent[s] \in Nat /\ memory[s] \in Nat /\ flush.pipe[s] \in Nat
                         /\ redis[s].book \in Nat /\ redis[s].expiry \in Nat
                         /\ feedClock \in Nat /\ downSince \in Nat
  BY FeedNumbers
<1>1. CASE F!Tick
  BY <1>0, <1>1 DEF F!Tick, FeedInv, Ordered, Quiet, F!NeverBackwards
<1>2. CASE F!Run
  BY <1>0, <1>2 DEF F!Run, FeedInv, Ordered, Quiet, F!NeverBackwards
<1>3. CASE F!Stop
  <2>1. \A s \in Symbols : memory'[s] = 0 /\ flush'.pipe[s] = 0
    BY <1>3, AsleepIs DEF F!Stop
  <2>2. flush'.at = "asleep" /\ downSince' = feedClock
        /\ UNCHANGED <<feedClock, sent, redis>>
    BY <1>3, AsleepIs DEF F!Stop
  <2> QED
    BY <1>0, <2>1, <2>2 DEF FeedInv, Ordered, Quiet, F!NeverBackwards
<1>4. ASSUME NEW s \in Symbols, F!Receive(s) PROVE FeedInv' /\ F!NeverBackwards
  <2>1. /\ sent'[s] = sent[s] + 1 /\ memory'[s] = sent[s] + 1
        /\ \A r \in Symbols \ {s} : sent'[r] = sent[r] /\ memory'[r] = memory[r]
        /\ UNCHANGED <<feedClock, running, flush, redis, downSince>>
    BY <1>4 DEF F!Receive, F!TypeOK
  <2>2. ASSUME NEW r \in Symbols PROVE Ordered(r)'
    <3>1. CASE r = s
      BY <1>0, <2>1, <3>1 DEF FeedInv, Ordered
    <3>2. CASE r /= s
      BY <1>0, <2>1, <3>2 DEF FeedInv, Ordered
    <3> QED
      BY <3>1, <3>2
  <2> QED
    BY <1>0, <2>1, <2>2 DEF FeedInv, Quiet, F!NeverBackwards
<1>5. CASE F!BeginFlush
  <2>1. flush'.at = "walking" /\ flush'.pipe = F!Asleep.pipe /\ running
        /\ UNCHANGED <<feedClock, sent, running, memory, redis, downSince>>
    BY <1>5 DEF F!BeginFlush, F!Asleep
  <2> QED
    BY <1>0, <2>1, AsleepIs DEF FeedInv, Ordered, Quiet, F!NeverBackwards
<1>6. ASSUME NEW s \in Symbols, F!Visit(s) PROVE FeedInv' /\ F!NeverBackwards
  <2>1. /\ flush'.at = flush.at /\ flush.at = "walking" /\ flush'.pipe[s] = memory[s]
        /\ \A r \in Symbols \ {s} : flush'.pipe[r] = flush.pipe[r]
        /\ UNCHANGED <<feedClock, sent, running, memory, redis, downSince>>
    BY <1>6 DEF F!Visit, F!TypeOK
  <2>2. ASSUME NEW r \in Symbols PROVE Ordered(r)'
    BY <1>0, <2>1 DEF FeedInv, Ordered
  <2> QED
    BY <1>0, <2>1, <2>2 DEF FeedInv, Quiet, F!NeverBackwards
<1>7. CASE F!EndWalk
  <2>1. flush.at = "walking" /\ flush'.at = "sending" /\ flush'.pipe = flush.pipe
        /\ UNCHANGED <<feedClock, sent, running, memory, redis, downSince>>
    BY <1>7 DEF F!EndWalk, F!TypeOK
  <2> QED
    BY <1>0, <2>1 DEF FeedInv, Ordered, Quiet, F!NeverBackwards
<1>8. CASE F!AbortWalk
  BY <1>0, <1>8, AsleepIs DEF F!AbortWalk, FeedInv, Ordered, Quiet, F!NeverBackwards
<1>9. CASE F!Execute
  BY <1>9, WriteKept DEF F!Execute, FeedInv, Quiet
<1>10. CASE F!ExecuteFails
  BY <1>10, WriteKept DEF F!ExecuteFails, FeedInv, Quiet
<1>11. CASE UNCHANGED F!vars
  BY <1>0, <1>11 DEF F!vars, FeedInv, Ordered, Quiet, F!NeverBackwards
<1> QED
  BY <1>1, <1>2, <1>3, <1>4, <1>5, <1>6, <1>7, <1>8, <1>9, <1>10, <1>11
     DEF F!Next, F!FlushStep

LEMMA DeadIsGone == F!TypeOK /\ FeedInv => F!DeadFeedExpires
<1> SUFFICES ASSUME F!TypeOK, FeedInv PROVE F!DeadFeedExpires
  OBVIOUS
<1>1. ASSUME ~running, feedClock >= downSince + BookTtl, NEW s \in Symbols
      PROVE  ~F!Visible(s)
  <2>1. redis[s].expiry <= downSince + BookTtl
    BY <1>1 DEF FeedInv, Quiet
  <2>2. redis[s].expiry \in Nat /\ downSince \in Nat /\ feedClock \in Nat
    BY FeedNumbers
  <2>3. ~(redis[s].expiry > feedClock)
    BY <1>1, <2>1, <2>2, FeedSizes
  <2> QED
    BY <2>3 DEF F!Visible
<1> QED
  BY <1>1, Zenon DEF F!DeadFeedExpires

\* The book in Redis never goes back to an older one, and is gone once the
\* connector has been down for a TTL, for any number of symbols, any length of
\* walk and any number of broken pipelines.
THEOREM CacheFollowsFeedTheorem == Spec => CacheFollowsFeed
<1>1. F!Spec => []F!TypeOK
  BY FeedTypeInit, FeedTypeNext, PTL DEF F!Spec
<1>2. F!Spec => []FeedInv
  BY <1>1, FeedInvInit, FeedInvNext, PTL DEF F!Spec
<1>3. F!TypeOK' /\ FeedInv' => F!DeadFeedExpires'
  BY DeadIsGone, PTL
<1>4. /\ F!TypeOK /\ FeedInv /\ F!TypeOK' /\ FeedInv' /\ [F!Next]_(F!vars)
      => [F!NeverBackwards /\ F!DeadFeedExpires']_(F!vars)
  BY <1>3, FeedInvNext
<1>5. F!Spec => F!CacheFollowsFeed
  BY <1>1, <1>2, <1>4, PTL DEF F!Spec, F!CacheFollowsFeed
<1> QED
  BY <1>5, ServicesRun DEF CacheFollowsFeed

-----------------------------------------------------------------------------
(* HealthMonitor *)

LEMMA HealthSizes ==
  /\ Threshold \in Nat /\ Period \in Nat /\ MaxPass \in Nat
  /\ ResetTtl \in Nat /\ ResetTtl > 0
  /\ MaxBeats \in Nat /\ MaxHealthClock \in Nat /\ MaxRaises \in Nat
  /\ None \notin Nat
BY ServicesAssumption DEF H!HealthMonitorAssumption

LEMMA DesksAre == Desks \in Seq(STRING) /\ Len(Desks) \in Nat /\ DOMAIN Desks = 1..Len(Desks)
BY ServicesAssumption DEF H!HealthMonitorAssumption

\* The monitor looks at a desk of the list, and alerts for one.
HealthType == H!TypeOK /\ (pass.at = "alerting" => pass.next <= Len(Desks))

LEMMA DeskIs ==
  ASSUME HealthType, pass.next <= Len(Desks)
  PROVE  H!Desk \in H!DeskSet
<1>1. pass.next \in DOMAIN Desks
  BY DesksAre DEF HealthType, H!TypeOK
<1> QED
  BY <1>1 DEF H!Desk, H!DeskSet

PassState == [at : {"asleep", "reading", "alerting"}, now : H!Time, next : 1..(Len(Desks) + 1)]
BeatState == [at : H!Time \cup {None}, expiry : 0..(MaxHealthClock + ResetTtl)]

LEMMA HealthTypeInit == H!Init => HealthType
<1> SUFFICES ASSUME H!Init PROVE HealthType
  OBVIOUS
<1>1. 0 \in H!Time /\ 0 \in 0..(MaxHealthClock + ResetTtl) /\ 0 \in 0..MaxRaises
      /\ 0 \in 0..MaxBeats /\ 1 \in 1..(Len(Desks) + 1)
  BY HealthSizes, DesksAre DEF H!Time
<1>2. beat \in [H!DeskSet -> BeatState]
  BY <1>1 DEF H!Init, BeatState
<1>3. pass \in PassState /\ pass.at = "asleep"
  BY <1>1 DEF H!Init, PassState
<1>4. alertedAt \in [H!DeskSet -> H!Time \cup {None}] /\ seenAt \in [H!DeskSet -> H!Time \cup {None}]
  BY DEF H!Init
<1> QED
  BY <1>1, <1>2, <1>3, <1>4 DEF H!Init, H!TypeOK, HealthType, PassState, BeatState

LEMMA HealthTypeNext == HealthType /\ [H!Next]_(H!vars) => HealthType'
<1> SUFFICES ASSUME HealthType, [H!Next]_(H!vars) PROVE HealthType'
  OBVIOUS
<1>0. /\ healthClock \in H!Time /\ healthClock \in Nat /\ pass \in PassState
      /\ beat \in [H!DeskSet -> BeatState]
      /\ healthClock + Period \in Nat
      /\ healthClock + ResetTtl \in 0..(MaxHealthClock + ResetTtl)
      /\ MaxHealthClock + 1 \in 0..(MaxHealthClock + ResetTtl)
      /\ pass.next \in 1..(Len(Desks) + 1)
      /\ pass.next <= Len(Desks) => pass.next + 1 \in 1..(Len(Desks) + 1)
      /\ pass.now \in H!Time
  BY HealthSizes, DesksAre DEF HealthType, H!TypeOK, H!Time, PassState, BeatState
<1> USE DEF HealthType
<1>1. CASE H!Tick
  BY <1>1, HealthSizes DEF H!Tick, H!TypeOK, H!Time
<1>2. ASSUME NEW d \in H!DeskSet, H!Beat(d) PROVE HealthType'
  <2>1. beat' \in [H!DeskSet -> BeatState]
    BY <1>0, <1>2 DEF H!Beat, BeatState, H!Forever
  <2>2. beats' \in 0..MaxBeats
    BY <1>2, HealthSizes DEF H!Beat, H!TypeOK
  <2> QED
    BY <1>0, <1>2, <2>1, <2>2 DEF H!Beat, H!TypeOK, BeatState
<1>3. CASE H!BeginPass
  <2>1. pass' \in PassState /\ pass'.at = "reading"
    BY <1>0, <1>3, DesksAre DEF H!BeginPass, PassState
  <2> QED
    BY <1>3, <2>1 DEF H!BeginPass, H!TypeOK, PassState
<1>4. CASE H!Skip
  <2>1. pass' \in PassState /\ pass'.at = "reading"
    BY <1>0, <1>4 DEF H!Skip, PassState
  <2> QED
    BY <1>4, <2>1 DEF H!Skip, H!TypeOK, PassState
<1>5. CASE H!Alert
  <2>1. pass' \in PassState /\ pass'.next <= Len(Desks)
    BY <1>0, <1>5 DEF H!Alert, PassState
  <2>2. alertedAt' \in [H!DeskSet -> H!Time \cup {None}]
    BY <1>0, <1>5 DEF H!Alert, H!TypeOK
  <2> QED
    BY <1>5, <2>1, <2>2 DEF H!Alert, H!TypeOK, PassState
<1>6. CASE H!Reset
  <2>1. pass' \in PassState /\ pass'.at = "reading"
    BY <1>0, <1>6 DEF H!Reset, PassState
  <2>2. beat' \in [H!DeskSet -> BeatState]
    BY <1>0, <1>6 DEF H!Reset, BeatState
  <2> QED
    BY <1>6, <2>1, <2>2 DEF H!Reset, H!TypeOK, PassState, BeatState
<1>7. CASE H!EndPass
  <2>1. pass' \in PassState /\ pass'.at = "asleep" /\ wake' \in Nat
    BY <1>0, <1>7 DEF H!EndPass, H!Sleep, PassState
  <2> QED
    BY <1>7, <2>1 DEF H!EndPass, H!TypeOK, PassState
<1>8. CASE H!PassFails
  <2>1. pass' \in PassState /\ pass'.at = "asleep" /\ wake' \in Nat
    BY <1>0, <1>8 DEF H!PassFails, H!Sleep, PassState
  <2>2. failed' \in 0..MaxRaises
    BY <1>8, HealthSizes DEF H!PassFails, H!TypeOK
  <2> QED
    BY <1>8, <2>1, <2>2 DEF H!PassFails, H!TypeOK, PassState
<1>9. CASE UNCHANGED H!vars
  BY <1>9 DEF H!vars, H!TypeOK
<1> QED
  BY <1>1, <1>2, <1>3, <1>4, <1>5, <1>6, <1>7, <1>8, <1>9 DEF H!Next

\* A pass begins when the sleep ends and takes at most MaxPass.
OnTime ==
  IF pass.at = "asleep"
  THEN healthClock <= wake /\ wake <= healthClock + Period
  ELSE pass.now <= healthClock /\ healthClock <= pass.now + MaxPass

\* Redis knows of every desk that ever beat, and its heartbeat is newer than
\* the desk's last one, but for a beat that a reset overwrote.
Remembered(d) ==
  /\ beat[d].at = None <=> seenAt[d] = None
  /\ beat[d].at /= None => /\ beat[d].at <= healthClock /\ seenAt[d] <= healthClock
                           /\ seenAt[d] <= beat[d].at + MaxPass

\* The pass is past the desk.
Visited(d) == \E i \in DOMAIN Desks : i < pass.next /\ Desks[i] = d

\* No pass failed, and the passes so far have seen the heartbeat: it is still
\* there, or resets live long enough.
Counted(d) ==
  /\ failed = 0 /\ beat[d].at /= None
  /\ beat[d].expiry > healthClock \/ H!ResetOutlasts

\* A heartbeat lives for ever or from its time on for the TTL of a reset.
Lasting(d) ==
  failed = 0 /\ beat[d].at /= None =>
    beat[d].expiry > MaxHealthClock \/ beat[d].expiry >= beat[d].at + ResetTtl

\* What no pass has found too old: while none fails, a heartbeat was young
\* enough when the pass before this one looked at it.
Young(d) ==
  Counted(d) =>
    /\ pass.at = "asleep" => wake <= beat[d].at + Threshold + Period + MaxPass
    /\ pass.at /= "asleep" => pass.now <= beat[d].at + Threshold + Period + MaxPass
    /\ pass.at /= "asleep" /\ Visited(d) => pass.now <= beat[d].at + Threshold

\* Nothing is reported twice for one heartbeat: it is reset behind the alert.
Reported(d) ==
  failed = 0 /\ alertedAt[d] /= None =>
    /\ beat[d].at /= None
    /\ alertedAt[d] <= beat[d].at \/ (pass.at = "alerting" /\ H!Desk = d)

HealthInv ==
  /\ OnTime
  /\ \A d \in H!DeskSet : Remembered(d) /\ Lasting(d) /\ Young(d) /\ Reported(d)
  /\ pass.at = "alerting" => beat[H!Desk].at /= None /\ alertedAt[H!Desk] = pass.now
  /\ H!AlertIsEarned

LEMMA HealthNumbers ==
  ASSUME HealthType
  PROVE  /\ healthClock \in Nat /\ healthClock <= MaxHealthClock /\ wake \in Nat
         /\ pass.now \in Nat /\ pass.next \in Nat /\ failed \in Nat
         /\ pass.at \in {"asleep", "reading", "alerting"}
         /\ \A d \in H!DeskSet :
              /\ beat[d].at \in Nat \cup {None} /\ beat[d].expiry \in Nat
              /\ alertedAt[d] \in Nat \cup {None} /\ seenAt[d] \in Nat \cup {None}
<1>1. /\ healthClock \in H!Time /\ pass.now \in H!Time /\ failed \in 0..MaxRaises
      /\ pass.next \in 1..(Len(Desks) + 1) /\ wake \in Nat
      /\ pass.at \in {"asleep", "reading", "alerting"}
  BY DEF HealthType, H!TypeOK
<1>2. ASSUME NEW d \in H!DeskSet
      PROVE  /\ beat[d].at \in H!Time \cup {None} /\ beat[d].expiry \in 0..(MaxHealthClock + ResetTtl)
             /\ alertedAt[d] \in H!Time \cup {None} /\ seenAt[d] \in H!Time \cup {None}
  BY DEF HealthType, H!TypeOK
<1> QED
  BY <1>1, <1>2, HealthSizes, DesksAre DEF H!Time

\* A heartbeat is looked at in time, and there as long as resets live.
LEMMA YoungIsPresent ==
  ASSUME HealthType, HealthInv, NEW d \in H!DeskSet, Counted(d)
  PROVE  /\ H!Present(d)
         /\ healthClock - beat[d].at <= Threshold + Period + 2 * MaxPass
<1>1. healthClock \in Nat /\ wake \in Nat /\ pass.now \in Nat /\ healthClock <= MaxHealthClock
      /\ beat[d].at \in Nat /\ beat[d].expiry \in Nat
  BY HealthNumbers DEF Counted
<1>2. healthClock <= beat[d].at + Threshold + Period + 2 * MaxPass
  BY <1>1, HealthSizes DEF HealthInv, OnTime, Young
<1>3. beat[d].expiry > healthClock
  <2>1. beat[d].expiry > MaxHealthClock \/ beat[d].expiry >= beat[d].at + ResetTtl
    BY DEF HealthInv, Lasting, Counted
  <2> QED
    BY <1>1, <1>2, <2>1, HealthSizes DEF Counted, H!ResetOutlasts
<1> QED
  BY <1>1, <1>2, <1>3, HealthSizes DEF H!Present

LEMMA HealthInvInit == H!Init => HealthInv
<1> SUFFICES ASSUME H!Init PROVE HealthInv
  OBVIOUS
<1>1. pass.at = "asleep" /\ wake = 0 /\ healthClock = 0
  BY DEF H!Init
<1>2. ASSUME NEW d \in H!DeskSet
      PROVE  beat[d].at = None /\ seenAt[d] = None /\ alertedAt[d] = None
  BY DEF H!Init
<1> QED
  BY <1>1, <1>2, HealthSizes
     DEF HealthInv, OnTime, Remembered, Lasting, Counted, Young, Reported, H!AlertIsEarned

LEMMA HealthInvNext ==
  HealthType /\ HealthInv /\ HealthType' /\ [H!Next]_(H!vars) => HealthInv' /\ (H!AlertsApart \/ UNCHANGED H!vars)
<1> SUFFICES ASSUME HealthType, HealthInv, HealthType', [H!Next]_(H!vars)
             PROVE  HealthInv' /\ (H!AlertsApart \/ UNCHANGED H!vars)
  OBVIOUS
<1> USE HealthSizes
<1>0. /\ healthClock \in Nat /\ healthClock <= MaxHealthClock /\ wake \in Nat
      /\ pass.now \in Nat /\ pass.next \in Nat /\ failed \in Nat
      /\ pass.at \in {"asleep", "reading", "alerting"}
      /\ \A d \in H!DeskSet :
           /\ beat[d].at \in Nat \cup {None} /\ beat[d].expiry \in Nat
           /\ alertedAt[d] \in Nat \cup {None} /\ seenAt[d] \in Nat \cup {None}
  BY HealthNumbers
<1>1. CASE H!Tick
  <2>1. /\ healthClock' = healthClock + 1
        /\ IF pass.at = "asleep" THEN healthClock < wake ELSE healthClock < pass.now + MaxPass
        /\ UNCHANGED <<beat, pass, wake, failed, alertedAt, seenAt, H!Desk>>
    BY <1>1 DEF H!Tick, H!Desk
  <2>2. OnTime'
    BY <1>0, <2>1 DEF HealthInv, OnTime
  <2>3. ASSUME NEW d \in H!DeskSet PROVE Remembered(d)' /\ Lasting(d)' /\ Young(d)' /\ Reported(d)'
    <3>1. Remembered(d)'
      BY <1>0, <2>1 DEF HealthInv, Remembered
    <3>2. Lasting(d)' /\ Reported(d)'
      BY <2>1 DEF HealthInv, Lasting, Reported
    <3>3. Young(d)'
      <4>1. Counted(d)' => Counted(d)
        BY <1>0, <2>1 DEF Counted, H!ResetOutlasts
      <4> QED
        BY <2>1, <4>1 DEF HealthInv, Young, Visited
    <3> QED
      BY <3>1, <3>2, <3>3
  <2>4. H!AlertIsEarned' /\ H!AlertsApart
    BY <2>1 DEF HealthInv, H!AlertIsEarned, H!AlertsApart
  <2> QED
    BY <2>1, <2>2, <2>3, <2>4 DEF HealthInv
<1>2. ASSUME NEW d \in H!DeskSet, H!Beat(d) PROVE HealthInv' /\ H!AlertsApart
  <2>1. /\ beat'[d] = [at |-> healthClock, expiry |-> H!Forever]
        /\ seenAt'[d] = healthClock
        /\ \A e \in H!DeskSet : e /= d => beat'[e] = beat[e] /\ seenAt'[e] = seenAt[e]
        /\ UNCHANGED <<healthClock, pass, wake, failed, alertedAt, H!Desk>>
    BY <1>2 DEF H!Beat, H!Desk, HealthType, H!TypeOK
  <2>2. OnTime' /\ OnTime
    BY <2>1 DEF HealthInv, OnTime
  <2>3. ASSUME NEW e \in H!DeskSet PROVE Remembered(e)' /\ Lasting(e)' /\ Young(e)' /\ Reported(e)'
    <3>1. CASE e = d
      <4>1. Remembered(e)'
        BY <1>0, <2>1, <3>1 DEF Remembered
      <4>2. Lasting(e)' /\ Young(e)'
        BY <1>0, <2>1, <2>2, <3>1 DEF OnTime, Lasting, Young, H!Forever
      <4>3. Reported(e)'
        BY <1>0, <2>1, <2>2, <3>1 DEF HealthInv, Remembered, Reported, OnTime
      <4> QED
        BY <4>1, <4>2, <4>3
    <3>2. CASE e /= d
      BY <2>1, <3>2
         DEF HealthInv, Remembered, Lasting, Counted, H!ResetOutlasts, Young, Visited, Reported
    <3> QED
      BY <3>1, <3>2
  <2>4. pass.at = "alerting" => H!Desk \in H!DeskSet
    BY DeskIs DEF HealthType
  <2>5. H!AlertIsEarned'
    BY <1>0, <2>1, <2>2 DEF HealthInv, OnTime, H!AlertIsEarned
  <2>6. H!AlertsApart
    BY <2>1 DEF H!AlertsApart
  <2> QED
    BY <1>0, <2>1, <2>2, <2>3, <2>4, <2>5, <2>6 DEF HealthInv
<1>3. CASE H!BeginPass
  <2>1. /\ pass.at = "asleep" /\ healthClock >= wake
        /\ pass'.at = "reading" /\ pass'.now = healthClock /\ pass'.next = 1
        /\ UNCHANGED <<healthClock, beat, wake, failed, alertedAt, seenAt>>
    BY <1>3 DEF H!BeginPass
  <2>2. ASSUME NEW d \in H!DeskSet PROVE Remembered(d)' /\ Lasting(d)' /\ Young(d)' /\ Reported(d)'
    <3>1. ~Visited(d)'
      BY <2>1, DesksAre DEF Visited
    <3>2. Young(d)'
      BY <1>0, <2>1, <3>1 DEF HealthInv, OnTime, Counted, H!ResetOutlasts, Young
    <3>3. Remembered(d)' /\ Lasting(d)' /\ Reported(d)'
      <4>1. Remembered(d)' /\ Lasting(d)'
        BY <2>1 DEF HealthInv, Remembered, Lasting
      <4>2. Reported(d)'
        BY <2>1 DEF HealthInv, Reported
      <4> QED
        BY <4>1, <4>2
    <3> QED
      BY <3>2, <3>3
  <2>3. OnTime'
    BY <1>0, <2>1 DEF HealthInv, OnTime
  <2> QED
    BY <2>1, <2>2, <2>3 DEF HealthInv, H!AlertIsEarned, H!AlertsApart
<1>4. CASE H!Skip
  <2>1. /\ pass.at = "reading" /\ pass.next <= Len(Desks) /\ ~H!Stale(H!Desk)
        /\ pass'.at = "reading" /\ pass'.now = pass.now /\ pass'.next = pass.next + 1
        /\ UNCHANGED <<healthClock, beat, wake, failed, alertedAt, seenAt>>
    BY <1>4 DEF H!Skip, HealthType, H!TypeOK
  <2>2. ASSUME NEW d \in H!DeskSet PROVE Young(d)'
    <3>0. Counted(d)' => Counted(d)
      BY <2>1 DEF Counted, H!ResetOutlasts
    <3>1. CASE d = H!Desk /\ Counted(d)
      <4>1. pass.now <= beat[d].at + Threshold
        <5>1. beat[d].at \in Nat /\ H!Present(d)
          BY <1>0, <3>1, YoungIsPresent DEF Counted
        <5>2. ~(pass.now - beat[d].at > Threshold)
          BY <2>1, <3>1, <5>1 DEF H!Stale
        <5> QED
          BY <1>0, <5>1, <5>2
      <4> QED
        BY <2>1, <3>0, <4>1 DEF HealthInv, Young
    <3>2. CASE d /= H!Desk
      <4>1. Visited(d)' => Visited(d)
        BY <1>0, <2>1, <3>2, DesksAre DEF Visited, H!Desk
      <4> QED
        BY <2>1, <3>0, <4>1 DEF HealthInv, Young
    <3>3. CASE ~Counted(d)
      BY <3>0, <3>3 DEF Young
    <3> QED
      BY <3>1, <3>2, <3>3
  <2>3. ASSUME NEW d \in H!DeskSet PROVE Remembered(d)' /\ Lasting(d)' /\ Reported(d)'
    <3>1. Remembered(d)' /\ Lasting(d)'
      BY <2>1 DEF HealthInv, Remembered, Lasting
    <3>2. Reported(d)'
      BY <2>1 DEF HealthInv, Reported
    <3> QED
      BY <3>1, <3>2
  <2>4. OnTime'
    BY <2>1 DEF HealthInv, OnTime
  <2> QED
    BY <2>1, <2>2, <2>3, <2>4 DEF HealthInv, H!AlertIsEarned, H!AlertsApart
<1>5. CASE H!Alert
  <2>1. /\ pass.at = "reading" /\ pass.next <= Len(Desks) /\ H!Stale(H!Desk)
        /\ pass'.at = "alerting" /\ pass'.now = pass.now /\ pass'.next = pass.next
        /\ UNCHANGED <<healthClock, beat, wake, failed, seenAt, H!Desk>>
    BY <1>5 DEF H!Alert, HealthType, H!TypeOK, H!Desk
  <2>2. H!Desk \in H!DeskSet
    BY <2>1, DeskIs
  <2>3. /\ alertedAt'[H!Desk] = pass.now
        /\ \A d \in H!DeskSet : d /= H!Desk => alertedAt'[d] = alertedAt[d]
    BY <1>5, <2>2 DEF H!Alert, HealthType, H!TypeOK
  <2>4. beat[H!Desk].at \in Nat /\ pass.now - beat[H!Desk].at > Threshold
    BY <1>0, <2>1, <2>2 DEF H!Stale, H!Present
  <2>5. beat[H!Desk].at /= None /\ seenAt[H!Desk] \in Nat
        /\ seenAt[H!Desk] <= beat[H!Desk].at + MaxPass
    BY <1>0, <2>2, <2>4 DEF HealthInv, Remembered
  <2>6. H!AlertIsEarned'
    <3>1. pass.now - seenAt[H!Desk] > Threshold - MaxPass
      BY <1>0, <2>4, <2>5
    <3> QED
      BY <2>1, <3>1 DEF H!AlertIsEarned
  <2>7. H!AlertsApart
    <3>1. ASSUME failed = 0, alertedAt[H!Desk] /= None
          PROVE  pass.now - alertedAt[H!Desk] > Threshold
      <4>1. alertedAt[H!Desk] <= beat[H!Desk].at /\ alertedAt[H!Desk] \in Nat
        BY <1>0, <2>1, <2>2, <3>1 DEF HealthInv, Reported
      <4> QED
        BY <1>0, <2>4, <4>1
    <3> QED
      BY <2>3, <3>1 DEF H!AlertsApart
  <2>8. ASSUME NEW d \in H!DeskSet PROVE Remembered(d)' /\ Lasting(d)' /\ Young(d)' /\ Reported(d)'
    <3>1. Remembered(d)'
      BY <2>1 DEF HealthInv, Remembered
    <3>2. Lasting(d)' /\ Young(d)'
      BY <2>1 DEF HealthInv, Lasting, Counted, H!ResetOutlasts, Young, Visited
    <3>3. Reported(d)'
      BY <2>1, <2>3, <2>5 DEF HealthInv, Reported
    <3> QED
      BY <3>1, <3>2, <3>3
  <2>9. OnTime'
    BY <2>1 DEF HealthInv, OnTime
  <2> QED
    BY <2>1, <2>3, <2>2, <2>5, <2>6, <2>7, <2>8, <2>9 DEF HealthInv
<1>6. CASE H!Reset
  <2>1. /\ pass.at = "alerting" /\ pass'.at = "reading" /\ pass'.now = pass.now
        /\ pass'.next = pass.next + 1
        /\ UNCHANGED <<healthClock, wake, failed, alertedAt, seenAt>>
    BY <1>6 DEF H!Reset, HealthType, H!TypeOK
  <2>2. H!Desk \in H!DeskSet
    BY <2>1, DeskIs DEF HealthType
  <2>3. /\ beat'[H!Desk] = [at |-> pass.now, expiry |-> healthClock + ResetTtl]
        /\ \A d \in H!DeskSet : d /= H!Desk => beat'[d] = beat[d]
    BY <1>6, <2>2 DEF H!Reset, HealthType, H!TypeOK
  <2>4. pass.now <= healthClock /\ healthClock <= pass.now + MaxPass /\ OnTime'
    BY <2>1 DEF HealthInv, OnTime
  <2>5. ASSUME NEW d \in H!DeskSet PROVE Remembered(d)' /\ Lasting(d)' /\ Young(d)' /\ Reported(d)'
    <3>1. CASE d = H!Desk
      <4>1. beat'[d].at = pass.now /\ beat'[d].expiry = healthClock + ResetTtl
            /\ pass.now /= None /\ beat[d].at /= None
        BY <1>0, <2>1, <2>3, <3>1 DEF HealthInv
      <4>2. Remembered(d)'
        BY <1>0, <2>1, <2>4, <4>1 DEF HealthInv, Remembered
      <4>3. Lasting(d)' /\ Young(d)'
        BY <1>0, <2>1, <2>4, <4>1 DEF Lasting, Young
      <4>4. Reported(d)'
        <5>1. alertedAt'[d] = pass.now
          BY <2>1, <3>1 DEF HealthInv
        <5> QED
          BY <1>0, <4>1, <5>1 DEF Reported
      <4> QED
        BY <4>2, <4>3, <4>4
    <3>2. CASE d /= H!Desk
      <4>1. beat'[d] = beat[d]
        BY <2>3, <3>2
      <4>2. Visited(d)' => Visited(d)
        BY <1>0, <2>1, <3>2, DesksAre DEF Visited, H!Desk
      <4> QED
        BY <2>1, <3>2, <4>1, <4>2
           DEF HealthInv, Remembered, Lasting, Counted, H!ResetOutlasts, Young, Reported
    <3> QED
      BY <3>1, <3>2
  <2> QED
    BY <2>1, <2>4, <2>5 DEF HealthInv, H!AlertIsEarned, H!AlertsApart
<1>7. CASE H!EndPass
  <2>1. /\ pass.at = "reading" /\ pass.next > Len(Desks) /\ pass'.at = "asleep"
        /\ wake' = healthClock + Period
        /\ UNCHANGED <<healthClock, beat, failed, alertedAt, seenAt>>
    BY <1>7 DEF H!EndPass, H!Sleep, HealthType, H!TypeOK
  <2>2. ASSUME NEW d \in H!DeskSet PROVE Remembered(d)' /\ Lasting(d)' /\ Young(d)' /\ Reported(d)'
    <3>1. Visited(d)
      BY <1>0, <2>1, DesksAre DEF Visited, H!DeskSet
    <3>2. Young(d)'
      <4>1. healthClock <= pass.now + MaxPass
        BY <2>1 DEF HealthInv, OnTime
      <4>2. Counted(d) => pass.now <= beat[d].at + Threshold
        BY <2>1, <3>1 DEF HealthInv, Young
      <4>3. ASSUME Counted(d)
            PROVE  healthClock + Period <= beat[d].at + Threshold + Period + MaxPass
        <5>1. beat[d].at \in Nat
          BY <1>0, <4>3 DEF Counted
        <5> QED
          BY <1>0, <4>1, <4>2, <4>3, <5>1
      <4>4. Counted(d)' => Counted(d)
        BY <2>1 DEF Counted, H!ResetOutlasts
      <4> QED
        BY <2>1, <4>3, <4>4 DEF Young
    <3>3. Remembered(d)' /\ Lasting(d)' /\ Reported(d)'
      <4>1. Remembered(d)' /\ Lasting(d)'
        BY <2>1 DEF HealthInv, Remembered, Lasting
      <4>2. Reported(d)'
        BY <2>1 DEF HealthInv, Reported
      <4> QED
        BY <4>1, <4>2
    <3> QED
      BY <3>2, <3>3
  <2>3. OnTime'
    BY <1>0, <2>1 DEF HealthInv, OnTime
  <2> QED
    BY <2>1, <2>2, <2>3 DEF HealthInv, H!AlertIsEarned, H!AlertsApart
<1>8. CASE H!PassFails
  <2>1. /\ failed' = failed + 1 /\ pass'.at = "asleep" /\ wake' = healthClock + Period
        /\ UNCHANGED <<healthClock, beat, alertedAt, seenAt>>
    BY <1>8 DEF H!PassFails, H!Sleep, HealthType, H!TypeOK
  <2>2. ASSUME NEW d \in H!DeskSet PROVE Remembered(d)' /\ Lasting(d)' /\ Young(d)' /\ Reported(d)'
    BY <1>0, <2>1 DEF HealthInv, Remembered, Lasting, Counted, Young, Reported
  <2>3. OnTime'
    BY <1>0, <2>1 DEF HealthInv, OnTime
  <2> QED
    BY <2>1, <2>2, <2>3 DEF HealthInv, H!AlertIsEarned, H!AlertsApart
<1>9. CASE UNCHANGED H!vars
  <2>1. UNCHANGED <<healthClock, beat, pass, wake, failed, alertedAt, seenAt, H!Desk>>
    BY <1>9 DEF H!vars, H!Desk
  <2> QED
    BY <1>9, <2>1
       DEF HealthInv, OnTime, Remembered, Lasting, Counted, H!ResetOutlasts, Young, Visited,
           Reported, H!AlertIsEarned
<1> QED
  BY <1>1, <1>2, <1>3, <1>4, <1>5, <1>6, <1>7, <1>8, <1>9 DEF H!Next

LEMMA SilentIsReported == HealthType /\ HealthInv => H!SilentDeskReported /\ H!NeverForgotten
<1> SUFFICES ASSUME HealthType, HealthInv PROVE H!SilentDeskReported /\ H!NeverForgotten
  OBVIOUS
<1>1. ASSUME NEW d \in H!DeskSet, failed = 0, H!Present(d)
      PROVE  healthClock - beat[d].at <= Threshold + Period + 2 * MaxPass
  BY <1>1, YoungIsPresent DEF H!Present, Counted
<1>2. ASSUME H!ResetOutlasts, NEW d \in H!DeskSet, failed = 0, seenAt[d] /= None
      PROVE  H!Present(d)
  BY <1>2, YoungIsPresent DEF HealthInv, Remembered, Counted
<1> QED
  BY <1>1, <1>2 DEF H!SilentDeskReported, H!NeverForgotten

\* Alerts are a threshold apart, earned by a silence, and repeated in time for
\* as long as Redis holds the heartbeat, which is as long as the silence lasts
\* if a reset outlasts a threshold, a period and two of the longest passes: for
\* any list of desks, any durations and any passes that raise.
THEOREM AlertsTimelyTheorem == Spec => AlertsTimely
<1>1. H!Spec => []HealthType
  BY HealthTypeInit, HealthTypeNext, PTL DEF H!Spec
<1>2. H!Spec => []HealthInv
  BY <1>1, HealthInvInit, HealthInvNext, PTL DEF H!Spec
<1>3. HealthType' /\ HealthInv' => H!SilentDeskReported' /\ H!NeverForgotten' /\ H!AlertIsEarned'
  <2>1. HealthType /\ HealthInv => H!SilentDeskReported /\ H!NeverForgotten /\ H!AlertIsEarned
    BY SilentIsReported DEF HealthInv
  <2> QED
    BY <2>1, PTL
<1>4. /\ HealthType /\ HealthInv /\ HealthType' /\ HealthInv' /\ [H!Next]_(H!vars)
      => [/\ H!AlertsApart /\ H!AlertIsEarned' /\ H!SilentDeskReported'
          /\ H!NeverForgotten']_(H!vars)
  BY <1>3, HealthInvNext
<1>5. H!Spec => H!AlertsTimely
  BY <1>1, <1>2, <1>4, PTL DEF H!Spec, H!AlertsTimely
<1> QED
  BY <1>5, ServicesRun DEF AlertsTimely

-----------------------------------------------------------------------------
(* LegacyConsumer *)

LEMMA LegacySizes ==
  /\ MaxSignals \in Nat /\ MaxFailures \in Nat
  /\ ReadCount \in Nat /\ ReadCount > 0 /\ StreamMaxLen \in Nat /\ StreamMaxLen > 0
BY ServicesAssumption DEF L!LegacyAssumption

WorkerState == [task : L!Tasks, batch : Seq(L!Signals), at : {"evaluate", "route", "ack"}]

\* What a read passes over, and the last entry that it returns.
Passed == IF lastId < trimmed THEN trimmed ELSE lastId
Newest == IF Passed + ReadCount < published THEN Passed + ReadCount ELSE published

LEMMA PassedIs ==
  ASSUME L!TypeOK
  PROVE  /\ lastId \in Nat /\ trimmed \in Nat /\ published \in Nat /\ Passed \in Nat
         /\ lastId <= Passed /\ trimmed <= Passed /\ Passed <= published
         /\ published <= MaxSignals
         /\ Newest \in Nat /\ Passed <= Newest /\ Newest <= published
<1>1. /\ lastId \in Nat /\ trimmed \in Nat /\ published \in Nat
      /\ lastId <= published /\ trimmed <= published /\ published <= MaxSignals
  BY LegacySizes DEF L!TypeOK
<1>2. Passed \in Nat /\ lastId <= Passed /\ trimmed <= Passed /\ Passed <= published
  BY <1>1 DEF Passed
<1> QED
  BY <1>1, <1>2, LegacySizes DEF Newest

LEMMA NewEntriesAre ==
  ASSUME L!TypeOK, L!NewEntries /= <<>>
  PROVE  /\ Passed < Newest
         /\ L!NewEntries \in Seq(L!Signals)
         /\ Len(L!NewEntries) = Newest - Passed
         /\ DOMAIN L!NewEntries = 1..(Newest - Passed)
         /\ \A i \in 1..(Newest - Passed) : L!NewEntries[i] = Passed + i
<1>1. /\ Passed \in Nat /\ published \in Nat /\ published <= MaxSignals
      /\ Newest \in Nat /\ Passed <= Newest /\ Newest <= published
  BY PassedIs
<1>2. Newest - (Passed + 1) + 1 = Newest - Passed /\ Newest - Passed \in Nat
  BY <1>1
<1>3. L!NewEntries = [i \in 1..(Newest - Passed) |-> (Passed + 1) + i - 1]
  BY <1>1, <1>2 DEF L!NewEntries, L!Entries, L!UpTo, Passed, Newest
<1>4. \A i \in 1..(Newest - Passed) : (Passed + 1) + i - 1 = Passed + i /\ Passed + i \in L!Signals
  BY <1>1, LegacySizes DEF L!Signals
<1>5. L!NewEntries \in Seq(L!Signals) /\ Len(L!NewEntries) = Newest - Passed
  <2>1. L!NewEntries \in [1..(Newest - Passed) -> L!Signals]
    BY <1>3, <1>4
  <2>2. L!NewEntries \in Seq(L!Signals)
    BY <1>2, <2>1, SeqDef
  <2> QED
    BY <1>2, <1>3, <2>2, LenProperties
<1>6. Passed /= Newest
  BY <1>1, <1>2, <1>5, EmptySeq
<1> QED
  BY <1>1, <1>3, <1>4, <1>5, <1>6

LEMMA Delivered ==
  ASSUME L!TypeOK, L!Deliver(L!NewEntries)
  PROVE  /\ L!NewEntries /= <<>> /\ lastId' = Newest
         /\ unacked' = unacked \cup ((Passed + 1)..Newest)
<1>1. L!NewEntries /= <<>>
  BY DEF L!Deliver
<1>2. L!NewEntries[Len(L!NewEntries)] = Newest
  BY <1>1, PassedIs, NewEntriesAre
<1>3. lastId' = Newest
  BY <1>1, <1>2, PassedIs, NewEntriesAre DEF L!Deliver
<1>4. {L!NewEntries[i] : i \in DOMAIN L!NewEntries} = (Passed + 1)..Newest
  <2>1. ASSUME NEW n \in (Passed + 1)..Newest
        PROVE  n - Passed \in 1..(Newest - Passed) /\ L!NewEntries[n - Passed] = n
    BY <1>1, PassedIs, NewEntriesAre
  <2>2. ASSUME NEW i \in 1..(Newest - Passed)
        PROVE  L!NewEntries[i] \in (Passed + 1)..Newest
    BY <1>1, PassedIs, NewEntriesAre
  <2> QED
    BY <1>1, <2>1, <2>2, NewEntriesAre
<1> QED
  BY <1>1, <1>3, <1>4 DEF L!Deliver

\* What a step does to the one consumer it is about.
LEMMA DropIs ==
  ASSUME L!TypeOK, NEW c \in Consumers, worker[c].batch /= <<>>, L!Drop(c)
  PROVE  /\ worker' \in [Consumers -> WorkerState]
         /\ worker'[c].at = "evaluate" /\ worker'[c].task = worker[c].task
         /\ \A i \in DOMAIN worker'[c].batch :
              i + 1 \in DOMAIN worker[c].batch /\ worker'[c].batch[i] = worker[c].batch[i + 1]
         /\ \A d \in Consumers : d /= c => worker'[d] = worker[d]
<1>1. worker[c] \in WorkerState
  BY DEF L!TypeOK, WorkerState
<1>2. worker[c].batch \in Seq(L!Signals)
  BY <1>1 DEF WorkerState
<1>3. /\ Tail(worker[c].batch) \in Seq(L!Signals)
      /\ \A i \in DOMAIN Tail(worker[c].batch) :
           i + 1 \in DOMAIN worker[c].batch /\ Tail(worker[c].batch)[i] = worker[c].batch[i + 1]
  BY <1>2
<1>4. /\ worker'[c] = [worker[c] EXCEPT !.batch = Tail(worker[c].batch), !.at = "evaluate"]
      /\ \A d \in Consumers : d /= c => worker'[d] = worker[d]
      /\ worker' \in [Consumers -> WorkerState]
  BY <1>1, <1>3 DEF L!Drop, L!TypeOK, WorkerState
<1>5. worker'[c].batch = Tail(worker[c].batch) /\ worker'[c].at = "evaluate"
      /\ worker'[c].task = worker[c].task
  BY <1>1, <1>4 DEF WorkerState
<1>6. \A i \in DOMAIN worker'[c].batch :
        i + 1 \in DOMAIN worker[c].batch /\ worker'[c].batch[i] = worker[c].batch[i + 1]
  BY <1>3, <1>5, Zenon
<1> QED
  BY <1>4, <1>5, <1>6, Zenon

LEMMA GoToIs ==
  ASSUME L!TypeOK, NEW c \in Consumers, NEW point \in {"evaluate", "route", "ack"},
         L!GoTo(c, point)
  PROVE  /\ worker' \in [Consumers -> WorkerState]
         /\ worker'[c].at = point /\ worker'[c].batch = worker[c].batch
         /\ worker'[c].task = worker[c].task
         /\ \A d \in Consumers : d /= c => worker'[d] = worker[d]
BY DEF L!GoTo, L!TypeOK, WorkerState

LEMMA HeadIs ==
  ASSUME L!TypeOK, NEW c \in Consumers, worker[c].batch /= <<>>
  PROVE  /\ 1 \in DOMAIN worker[c].batch /\ L!Signal(c) = worker[c].batch[1]
         /\ L!Signal(c) \in L!Signals
<1>1. worker[c].batch \in Seq(L!Signals)
  BY DEF L!TypeOK
<1> QED
  BY <1>1 DEF L!Signal

LEMMA IdleIs == L!Idle \in WorkerState /\ L!Down \in WorkerState
BY EmptySeq DEF L!Idle, L!Down, L!Tasks, WorkerState

LEMMA LegacyTypeInit == L!Init => L!TypeOK
<1> SUFFICES ASSUME L!Init PROVE L!TypeOK
  OBVIOUS
<1>1. worker \in [Consumers -> WorkerState]
  BY IdleIs DEF L!Init
<1>2. /\ published \in 0..MaxSignals /\ trimmed \in 0..published /\ unread \subseteq 1..trimmed
      /\ lastId \in 0..published /\ unacked \subseteq 1..lastId /\ faults \in 0..MaxFailures
  BY LegacySizes DEF L!Init
<1>3. executed \in [L!Signals -> Nat] /\ verdicts \in [L!Signals -> L!Verdicts \cup {None}]
  BY DEF L!Init
<1> QED
  BY <1>1, <1>2, <1>3 DEF L!TypeOK, WorkerState

LEMMA LegacyTypeNext == L!TypeOK /\ [L!Next]_(L!vars) => L!TypeOK'
<1> SUFFICES ASSUME L!TypeOK, [L!Next]_(L!vars) PROVE L!TypeOK'
  OBVIOUS
<1> USE DEF L!streamVars
<1>0. /\ published \in 0..MaxSignals /\ trimmed \in 0..published /\ unread \subseteq 1..trimmed
      /\ lastId \in 0..published /\ unacked \subseteq 1..lastId
      /\ worker \in [Consumers -> WorkerState]
      /\ verdicts \in [L!Signals -> L!Verdicts \cup {None}]
      /\ executed \in [L!Signals -> Nat] /\ faults \in 0..MaxFailures
  BY DEF L!TypeOK, WorkerState
<1>1. ASSUME published' \in 0..MaxSignals, trimmed' \in 0..published',
             unread' \subseteq 1..trimmed',
             lastId' \in 0..published', unacked' \subseteq 1..lastId',
             worker' \in [Consumers -> WorkerState],
             verdicts' \in [L!Signals -> L!Verdicts \cup {None}],
             executed' \in [L!Signals -> Nat], faults' \in 0..MaxFailures
      PROVE  L!TypeOK'
  BY <1>1 DEF L!TypeOK, WorkerState
<1>2. L!Fault => faults' \in 0..MaxFailures
  BY <1>0, LegacySizes DEF L!Fault
<1>3. L!Deliver(L!NewEntries) => lastId' \in 0..published /\ unacked' \subseteq 1..lastId'
  <2> SUFFICES ASSUME L!Deliver(L!NewEntries)
               PROVE  lastId' \in 0..published /\ unacked' \subseteq 1..lastId'
    OBVIOUS
  <2>1. /\ lastId' = Newest /\ unacked' = unacked \cup ((Passed + 1)..Newest)
        /\ Newest \in Nat /\ Passed \in Nat /\ lastId \in Nat /\ lastId <= Passed
        /\ Passed < Newest /\ Newest <= published
    BY PassedIs, Delivered, NewEntriesAre
  <2>2. published \in Nat /\ unacked \subseteq 1..lastId
    BY <1>0, LegacySizes
  <2> QED
    BY <2>1, <2>2
<1>4. CASE L!Publish
  <2>1. /\ published \in Nat /\ published < MaxSignals /\ published' = published + 1
        /\ trimmed \in Nat /\ trimmed' \in Nat /\ trimmed <= trimmed' /\ trimmed' <= published
        /\ unread' = unread \cup {n \in (trimmed + 1)..trimmed' : n > lastId}
    BY <1>0, <1>4, LegacySizes DEF L!Publish
  <2>2. unread' \subseteq 1..trimmed'
    <3>1. \A n \in unread : n \in Nat /\ 1 <= n /\ n <= trimmed
      BY <1>0, <2>1
    <3>2. ASSUME NEW n \in unread' PROVE n \in 1..trimmed'
      BY <2>1, <3>1, <3>2
    <3> QED
      BY <3>2
  <2>3. published' \in 0..MaxSignals /\ lastId' \in 0..published' /\ trimmed' \in 0..published'
    BY <1>0, <1>4, <2>1, LegacySizes DEF L!Publish
  <2> QED
    BY <1>0, <1>1, <1>4, <2>2, <2>3 DEF L!Publish
<1>5. ASSUME NEW c \in Consumers, L!Read(c) PROVE L!TypeOK'
  <2>1. L!NewEntries \in Seq(L!Signals)
    BY <1>5, Delivered, NewEntriesAre DEF L!Read
  <2>2. worker' \in [Consumers -> WorkerState]
    BY <1>0, <1>5, <2>1 DEF L!Read, WorkerState
  <2> QED
    BY <1>0, <1>1, <1>3, <1>5, <2>2 DEF L!Read
<1>6. ASSUME NEW c \in Consumers, L!Evaluate(c) PROVE L!TypeOK'
  <2> PICK v \in L!Verdicts :
        /\ verdicts' = [verdicts EXCEPT ![L!Signal(c)] = v]
        /\ L!GoTo(c, IF v = "authorize" THEN "route" ELSE "ack")
    BY <1>6 DEF L!Evaluate
  <2>1. verdicts' \in [L!Signals -> L!Verdicts \cup {None}]
    BY <1>0
  <2>2. worker' \in [Consumers -> WorkerState]
    BY GoToIs
  <2> QED
    BY <1>0, <1>1, <1>6, <2>1, <2>2 DEF L!Evaluate
<1>7. ASSUME NEW c \in Consumers, L!Route(c) PROVE L!TypeOK'
  <2>1. executed' \in [L!Signals -> Nat]
    BY <1>0, <1>7, HeadIs DEF L!Route, L!At
  <2>2. worker' \in [Consumers -> WorkerState]
    BY <1>7, GoToIs DEF L!Route
  <2> QED
    BY <1>0, <1>1, <1>7, <2>1, <2>2 DEF L!Route
<1>8. ASSUME NEW c \in Consumers, L!Ack(c) PROVE L!TypeOK'
  <2>1. worker' \in [Consumers -> WorkerState]
    BY <1>8, DropIs DEF L!Ack, L!At
  <2> QED
    BY <1>0, <1>1, <1>8, <2>1 DEF L!Ack
<1>9. ASSUME NEW c \in Consumers, L!SignalFails(c) PROVE L!TypeOK'
  <2>1. worker' \in [Consumers -> WorkerState]
    BY <1>9, DropIs DEF L!SignalFails
  <2> QED
    BY <1>0, <1>1, <1>2, <1>9, <2>1 DEF L!SignalFails
<1>10. ASSUME NEW c \in Consumers, L!ReplyLost(c) PROVE L!TypeOK'
  <2>1. worker' \in [Consumers -> WorkerState]
    BY <1>10, DropIs DEF L!ReplyLost
  <2>2. executed' \in [L!Signals -> Nat] /\ unacked' \subseteq unacked
    BY <1>0, <1>10 DEF L!ReplyLost
  <2> QED
    BY <1>0, <1>1, <1>2, <1>10, <2>1, <2>2 DEF L!ReplyLost
<1>11. ASSUME NEW c \in Consumers, L!ReadFails(c) PROVE L!TypeOK'
  BY <1>0, <1>1, <1>2, <1>3, <1>11 DEF L!ReadFails
<1>12. ASSUME NEW c \in Consumers, L!Crash(c) PROVE L!TypeOK'
  BY <1>0, <1>1, <1>2, <1>12, IdleIs DEF L!Crash
<1>13. ASSUME NEW c \in Consumers, L!Start(c) PROVE L!TypeOK'
  BY <1>0, <1>1, <1>13, IdleIs DEF L!Start
<1>14. ASSUME NEW c \in Consumers, L!StartFails(c) PROVE L!TypeOK'
  <2>1. worker' \in [Consumers -> WorkerState]
    BY <1>0, <1>14 DEF L!StartFails, L!Tasks, WorkerState
  <2> QED
    BY <1>0, <1>1, <1>2, <1>14, <2>1 DEF L!StartFails
<1>15. CASE UNCHANGED L!vars
  BY <1>15 DEF L!vars, L!TypeOK
<1> QED
  BY <1>4, <1>5, <1>6, <1>7, <1>8, <1>9, <1>10, <1>11, <1>12, <1>13, <1>14, <1>15
     DEF L!Next, L!ConsumerStep

\* What each service's state looks like, whichever takes its steps, for every
\* value of the constants.
THEOREM ServicesTypeOK == Spec => []TypeOK
<1>1. F!Spec => []F!TypeOK
  BY FeedTypeInit, FeedTypeNext, PTL DEF F!Spec
<1>2. C!Spec => []C!TypeOK
  BY PriorTypeInit, PriorTypeNext, PTL DEF C!Spec
<1>3. H!Spec => []H!TypeOK
  <2>1. HealthType => H!TypeOK
    BY DEF HealthType
  <2> QED
    BY <2>1, HealthTypeInit, HealthTypeNext, PTL DEF H!Spec
<1>4. L!Spec => []L!TypeOK
  BY LegacyTypeInit, LegacyTypeNext, PTL DEF L!Spec
<1> QED
  BY <1>1, <1>2, <1>3, <1>4, ServicesRun, PTL DEF TypeOK

Settled(s) == verdicts[s] = "reject" \/ (verdicts[s] = "authorize" /\ executed[s] = 1)

\* Signals in hand are pending ones, each in one pair of hands, and once.
InHand ==
  /\ \A c \in Consumers : \A i \in DOMAIN worker[c].batch : worker[c].batch[i] \in unacked
  /\ \A c, d \in Consumers : \A i \in DOMAIN worker[c].batch, j \in DOMAIN worker[d].batch :
       worker[c].batch[i] = worker[d].batch[j] => c = d /\ i = j

\* How far a signal in hand has come.
Point(c) ==
  /\ worker[c].batch = <<>> => worker[c].at = "evaluate"
  /\ \A i \in DOMAIN worker[c].batch :
       LET s == worker[c].batch[i]
       IN  /\ i > 1 \/ worker[c].at = "evaluate" => executed[s] = 0
           /\ i = 1 /\ worker[c].at = "route" => executed[s] = 0 /\ verdicts[s] = "authorize"
           /\ i = 1 /\ worker[c].at = "ack" => Settled(s)

\* What was trimmed and not delivered is what nobody will read.
Skipped == \A s \in 1..trimmed : s > lastId => s \in unread

LegacyInv ==
  /\ InHand
  /\ Skipped
  /\ \A c \in Consumers : Point(c)
  /\ \A s \in L!Signals : s > lastId => executed[s] = 0
  /\ L!ExecutedAtMostOnce
  /\ L!AckedIsDone

LEMMA LegacyInvInit == L!Init => LegacyInv
<1> SUFFICES ASSUME L!Init PROVE LegacyInv
  OBVIOUS
<1>1. \A c \in Consumers : worker[c].batch = <<>> /\ worker[c].at = "evaluate"
  BY DEF L!Init, L!Down, L!Idle
<1>2. \A s \in L!Signals : executed[s] = 0
  BY DEF L!Init
<1>3. 1..lastId = {} /\ 1..trimmed = {}
  BY DEF L!Init
<1> QED
  BY <1>1, <1>2, <1>3 DEF LegacyInv, InHand, Skipped, Point, L!ExecutedAtMostOnce, L!AckedIsDone

\* In the steps that read nothing, hands only become emptier, from the front.
Emptier == \A c \in Consumers : \E k \in 0..1 : \A i \in DOMAIN worker'[c].batch :
             i + k \in DOMAIN worker[c].batch /\ worker'[c].batch[i] = worker[c].batch[i + k]

LEMMA BatchIs ==
  ASSUME L!TypeOK
  PROVE  \A c \in Consumers : /\ worker[c].batch \in Seq(L!Signals)
                              /\ DOMAIN worker[c].batch \subseteq Nat \ {0}
                              /\ \A i \in DOMAIN worker[c].batch : worker[c].batch[i] \in L!Signals
<1> SUFFICES ASSUME NEW c \in Consumers
             PROVE  /\ worker[c].batch \in Seq(L!Signals)
                    /\ DOMAIN worker[c].batch \subseteq Nat \ {0}
                    /\ \A i \in DOMAIN worker[c].batch : worker[c].batch[i] \in L!Signals
  OBVIOUS
<1>1. worker[c].batch \in Seq(L!Signals)
  BY DEF L!TypeOK
<1> QED
  BY <1>1, LenProperties, ElementOfSeq

\* Then each signal stays in one pair of hands, and what is stuck stays so.
LEMMA EmptierKeeps ==
  ASSUME L!TypeOK, L!TypeOK', LegacyInv, Emptier,
         \A s \in unacked : ~L!InBatch(s) => s \in unacked' /\ executed'[s] = executed[s],
         \A c \in Consumers : \A i \in DOMAIN worker'[c].batch : worker'[c].batch[i] \in unacked'
  PROVE  InHand' /\ L!FailedIsStuck
<1>1. ASSUME NEW s, L!InBatch(s)' PROVE L!InBatch(s)
  BY <1>1 DEF L!InBatch, Emptier
<1>2. ASSUME NEW c \in Consumers, NEW d \in Consumers,
             NEW i \in DOMAIN worker'[c].batch, NEW j \in DOMAIN worker'[d].batch,
             worker'[c].batch[i] = worker'[d].batch[j]
      PROVE  c = d /\ i = j
  <2>1. PICK k \in 0..1 : \A m \in DOMAIN worker'[c].batch :
          m + k \in DOMAIN worker[c].batch /\ worker'[c].batch[m] = worker[c].batch[m + k]
    BY DEF Emptier
  <2>2. PICK l \in 0..1 : \A m \in DOMAIN worker'[d].batch :
          m + l \in DOMAIN worker[d].batch /\ worker'[d].batch[m] = worker[d].batch[m + l]
    BY DEF Emptier
  <2>3. c = d /\ i + k = j + l
    BY <1>2, <2>1, <2>2 DEF LegacyInv, InHand
  <2>4. worker[c].batch[j + k] = worker[d].batch[j + l]
    BY <2>1, <2>2, <2>3
  <2>5. j + k = j + l
    BY <2>1, <2>2, <2>3, <2>4 DEF LegacyInv, InHand
  <2>6. i \in Nat /\ j \in Nat
    <3>1. worker'[c].batch \in Seq(L!Signals) /\ worker'[d].batch \in Seq(L!Signals)
      BY DEF L!TypeOK
    <3> QED
      BY <3>1, LenProperties
  <2> QED
    BY <2>3, <2>5, <2>6
<1>3. InHand'
  BY <1>2 DEF InHand
<1>4. L!FailedIsStuck
  BY <1>1 DEF L!FailedIsStuck, L!Stuck
<1> QED
  BY <1>3, <1>4

\* Where a consumer's hand has moved to the next signal, it starts with that.
LEMMA DropPoint ==
  ASSUME L!TypeOK, L!TypeOK', LegacyInv, NEW c \in Consumers, worker[c].batch /= <<>>,
         L!Drop(c), UNCHANGED verdicts,
         \A s \in L!Signals : s /= L!Signal(c) => executed'[s] = executed[s]
  PROVE  Emptier /\ \A d \in Consumers : Point(d)'
<1>1. /\ worker' \in [Consumers -> WorkerState]
      /\ worker'[c].at = "evaluate" /\ worker'[c].task = worker[c].task
      /\ \A i \in DOMAIN worker'[c].batch :
           i + 1 \in DOMAIN worker[c].batch /\ worker'[c].batch[i] = worker[c].batch[i + 1]
      /\ \A d \in Consumers : d /= c => worker'[d] = worker[d]
  BY DropIs
<1>2. 1 \in DOMAIN worker[c].batch /\ L!Signal(c) = worker[c].batch[1]
  BY HeadIs
<1>3. Emptier
  <2>1. ASSUME NEW d \in Consumers, d /= c
        PROVE  \A i \in DOMAIN worker'[d].batch :
                 i + 0 \in DOMAIN worker[d].batch /\ worker'[d].batch[i] = worker[d].batch[i + 0]
    <3>1. worker'[d] = worker[d]
      BY <1>1, <2>1
    <3>2. \A i \in DOMAIN worker[d].batch : i + 0 = i
      BY BatchIs
    <3> QED
      BY <3>1, <3>2
  <2> QED
    BY <1>1, <2>1 DEF Emptier
<1>4. Point(c)'
  <2>1. ASSUME NEW i \in DOMAIN worker'[c].batch PROVE executed'[worker'[c].batch[i]] = 0
    <3>1. i + 1 \in DOMAIN worker[c].batch /\ worker'[c].batch[i] = worker[c].batch[i + 1]
          /\ i + 1 /= 1 /\ i + 1 > 1
      <4>1. worker'[c].batch \in Seq(L!Signals)
        BY DEF L!TypeOK
      <4> QED
        BY <1>1, <4>1, LenProperties
    <3>2. worker[c].batch[i + 1] /= L!Signal(c) /\ worker[c].batch[i + 1] \in L!Signals
      BY <1>2, <3>1, BatchIs DEF LegacyInv, InHand
    <3>3. executed[worker[c].batch[i + 1]] = 0
      BY <3>1 DEF LegacyInv, Point
    <3> QED
      BY <3>1, <3>2, <3>3
  <2>2. worker'[c].at = "evaluate"
    BY <1>1
  <2> QED
    BY <2>1, <2>2 DEF Point
<1>5. ASSUME NEW d \in Consumers, d /= c PROVE Point(d)'
  <2>1. worker'[d] = worker[d]
    BY <1>1, <1>5
  <2>2. \A i \in DOMAIN worker[d].batch :
          worker[d].batch[i] /= L!Signal(c) /\ worker[d].batch[i] \in L!Signals
    BY <1>2, <1>5, BatchIs DEF LegacyInv, InHand
  <2>3. \A i \in DOMAIN worker[d].batch : executed'[worker[d].batch[i]] = executed[worker[d].batch[i]]
    BY <2>2
  <2> QED
    BY <2>1, <2>3 DEF LegacyInv, Point, Settled
<1> QED
  BY <1>3, <1>4, <1>5

\* A consumer that neither reads nor drops a signal keeps its hand.
LEMMA KeepEmptier ==
  ASSUME L!TypeOK, \A c \in Consumers : worker'[c].batch = worker[c].batch \/ worker'[c].batch = <<>>
  PROVE  Emptier
<1>1. ASSUME NEW c \in Consumers
      PROVE  \A i \in DOMAIN worker'[c].batch :
               i + 0 \in DOMAIN worker[c].batch /\ worker'[c].batch[i] = worker[c].batch[i + 0]
  <2>1. \A i \in DOMAIN worker[c].batch : i + 0 = i
    BY BatchIs
  <2>2. CASE worker'[c].batch = worker[c].batch
    BY <2>1, <2>2
  <2>3. CASE worker'[c].batch = <<>>
    BY <2>3
  <2> QED
    BY <2>2, <2>3
<1> QED
  BY <1>1 DEF Emptier

\* The entries that a group hands out are new to everyone.
LEMMA DeliveredAreNew ==
  ASSUME L!TypeOK, LegacyInv, L!Deliver(L!NewEntries), UNCHANGED <<trimmed, unread, executed>>
  PROVE  /\ unacked \subseteq unacked' /\ lastId < lastId' /\ lastId \in Nat /\ lastId' \in Nat
         /\ Passed \in Nat
         /\ \A i \in DOMAIN L!NewEntries : /\ L!NewEntries[i] \in unacked'
                                           /\ L!NewEntries[i] > lastId
                                           /\ executed[L!NewEntries[i]] = 0
                                           /\ i \in Nat /\ L!NewEntries[i] = Passed + i
         /\ \A s \in (1..lastId') \ unread : s \notin unacked' => s \in 1..lastId /\ s \notin unacked
         /\ \A s \in L!Signals : s > lastId' => executed'[s] = 0
         /\ \A s \in unacked : s \in Nat /\ s <= lastId
         /\ Skipped'
<1>1. /\ lastId' = Newest /\ unacked' = unacked \cup ((Passed + 1)..Newest)
      /\ Newest \in Nat /\ Passed \in Nat /\ lastId \in Nat /\ lastId <= Passed
      /\ Passed < Newest /\ Newest <= published /\ published <= MaxSignals /\ published \in Nat
      /\ L!NewEntries \in Seq(L!Signals)
      /\ DOMAIN L!NewEntries = 1..(Newest - Passed)
      /\ \A i \in 1..(Newest - Passed) : L!NewEntries[i] = Passed + i
  BY PassedIs, Delivered, NewEntriesAre
<1>2. unacked \subseteq 1..lastId
  BY DEF L!TypeOK
<1>3. ASSUME NEW i \in 1..(Newest - Passed)
      PROVE  Passed + i \in (Passed + 1)..Newest /\ Passed + i \in L!Signals /\ i \in Nat
             /\ Passed + i > lastId
  BY <1>1, LegacySizes DEF L!Signals
<1>4. \A s \in L!Signals : s > lastId => executed[s] = 0
  BY DEF LegacyInv
<1>5. \A s \in L!Signals : s \in Nat
  BY LegacySizes DEF L!Signals
<1>6. ASSUME NEW s \in 1..Newest, s \notin unread, s \notin unacked'
      PROVE  s \in 1..lastId /\ s \notin unacked
  <2>1. s <= Passed /\ s \notin unacked
    BY <1>1, <1>6
  <2>2. Passed = lastId \/ (Passed = trimmed /\ s \in 1..trimmed)
    BY <1>1, <2>1 DEF Passed
  <2>3. s <= lastId
    BY <1>1, <1>6, <2>1, <2>2 DEF LegacyInv, Skipped
  <2> QED
    BY <1>1, <2>1, <2>3
<1>7. Skipped'
  BY <1>1, PassedIs DEF Skipped
<1>8. \A i \in DOMAIN L!NewEntries : /\ L!NewEntries[i] \in unacked'
                                     /\ L!NewEntries[i] > lastId
                                     /\ executed[L!NewEntries[i]] = 0
                                     /\ i \in Nat /\ L!NewEntries[i] = Passed + i
  BY <1>1, <1>3, <1>4
<1>9. \A s \in L!Signals : s > lastId' => executed'[s] = 0
  BY <1>1, <1>4, <1>5
<1> QED
  BY <1>1, <1>2, <1>6, <1>7, <1>8, <1>9

LEMMA LegacyInvNext ==
  L!TypeOK /\ LegacyInv /\ L!TypeOK' /\ [L!Next]_(L!vars) => LegacyInv' /\ L!FailedIsStuck
<1> SUFFICES ASSUME L!TypeOK, LegacyInv, L!TypeOK', [L!Next]_(L!vars)
             PROVE  LegacyInv' /\ L!FailedIsStuck
  OBVIOUS
<1> USE DEF L!streamVars
<1>0. \A s \in L!Signals : executed[s] \in Nat /\ s \in Nat
  BY LegacySizes DEF L!TypeOK, L!Signals
<1>1. \A c \in Consumers : worker[c].batch /= <<>> =>
        /\ 1 \in DOMAIN worker[c].batch /\ L!Signal(c) = worker[c].batch[1]
        /\ L!Signal(c) \in L!Signals /\ L!Signal(c) \in unacked /\ L!InBatch(L!Signal(c))
        /\ \A d \in Consumers : \A i \in DOMAIN worker[d].batch :
             worker[d].batch[i] = L!Signal(c) => d = c /\ i = 1
  BY HeadIs DEF LegacyInv, InHand, L!InBatch
<1>2. ASSUME UNCHANGED <<lastId, unacked, worker, verdicts, executed>>,
             unread \subseteq unread', Skipped'
      PROVE  LegacyInv' /\ L!FailedIsStuck
  BY <1>2 DEF LegacyInv, InHand, Point, Settled, L!ExecutedAtMostOnce, L!AckedIsDone,
              L!FailedIsStuck, L!Stuck, L!InBatch
<1>3. CASE L!Publish
  <2>1. unread' = unread \cup {n \in (trimmed + 1)..trimmed' : n > lastId}
        /\ UNCHANGED <<lastId, unacked, worker, verdicts, executed>>
    BY <1>3 DEF L!Publish
  <2>2. trimmed \in Nat /\ trimmed' \in Nat
    <3>1. trimmed \in 0..published /\ published \in 0..MaxSignals
          /\ trimmed' \in 0..published' /\ published' \in 0..MaxSignals
      BY DEF L!TypeOK
    <3> QED
      BY <3>1, LegacySizes
  <2>3. Skipped'
    BY <2>1, <2>2 DEF LegacyInv, Skipped
  <2> QED
    BY <1>2, <2>1, <2>3
<1>4. ASSUME NEW c \in Consumers, L!Read(c) PROVE LegacyInv' /\ L!FailedIsStuck
  <2>1. /\ L!Deliver(L!NewEntries) /\ UNCHANGED <<trimmed, unread, verdicts, executed>>
        /\ worker[c].batch = <<>> /\ worker[c].at = "evaluate"
    BY <1>4 DEF L!Read, L!Free, LegacyInv, Point
  <2>2. /\ worker'[c].batch = L!NewEntries /\ worker'[c].at = "evaluate"
        /\ \A d \in Consumers : d /= c => worker'[d] = worker[d]
    BY <1>4, <2>1 DEF L!Read, L!TypeOK
  <2>3. /\ unacked \subseteq unacked' /\ lastId < lastId' /\ lastId \in Nat /\ lastId' \in Nat
        /\ \A i \in DOMAIN L!NewEntries : /\ L!NewEntries[i] \in unacked'
                                          /\ L!NewEntries[i] > lastId
                                          /\ executed[L!NewEntries[i]] = 0
                                          /\ i \in Nat /\ L!NewEntries[i] = Passed + i
        /\ Passed \in Nat /\ Skipped'
        /\ \A s \in (1..lastId') \ unread : s \notin unacked' => s \in 1..lastId /\ s \notin unacked
        /\ \A s \in L!Signals : s > lastId' => executed'[s] = 0
        /\ \A s \in unacked : s \in Nat /\ s <= lastId
    BY <2>1, DeliveredAreNew
  <2>4. ASSUME NEW d \in Consumers, NEW i \in DOMAIN worker'[d].batch
        PROVE  /\ worker'[d].batch[i] \in unacked'
               /\ d /= c => worker'[d].batch[i] \in unacked /\ worker'[d].batch[i] = worker[d].batch[i]
    BY <2>2, <2>3 DEF LegacyInv, InHand
  <2>5. ASSUME NEW d \in Consumers, NEW e \in Consumers,
               NEW i \in DOMAIN worker'[d].batch, NEW j \in DOMAIN worker'[e].batch,
               worker'[d].batch[i] = worker'[e].batch[j]
        PROVE  d = e /\ i = j
    <3>1. CASE d /= c /\ e /= c
      BY <2>2, <2>5, <3>1 DEF LegacyInv, InHand
    <3>2. CASE d = c /\ e = c
      BY <2>2, <2>3, <2>5, <3>2
    <3>3. CASE (d = c) /= (e = c)
      BY <2>2, <2>3, <2>4, <2>5, <3>3
    <3> QED
      BY <3>1, <3>2, <3>3
  <2>6. InHand'
    BY <2>4, <2>5 DEF InHand
  <2>7. ASSUME NEW d \in Consumers PROVE Point(d)'
    <3>1. CASE d = c
      BY <2>1, <2>2, <2>3, <3>1 DEF Point
    <3>2. CASE d /= c
      BY <2>1, <2>2, <3>2 DEF LegacyInv, Point, Settled
    <3> QED
      BY <3>1, <3>2
  <2>8. L!ExecutedAtMostOnce' /\ L!AckedIsDone'
    BY <2>1, <2>3 DEF LegacyInv, L!ExecutedAtMostOnce, L!AckedIsDone
  <2>9. ASSUME NEW s \in unacked, L!InBatch(s)' PROVE L!InBatch(s)
    <3>1. PICK d \in Consumers : \E i \in DOMAIN worker'[d].batch : worker'[d].batch[i] = s
      BY <2>9 DEF L!InBatch
    <3>2. d /= c
      BY <2>2, <2>3, <3>1
    <3> QED
      BY <2>2, <3>1, <3>2 DEF L!InBatch
  <2>10. L!FailedIsStuck
    BY <2>1, <2>3, <2>9 DEF L!FailedIsStuck, L!Stuck
  <2> QED
    BY <2>3, <2>6, <2>7, <2>8, <2>10 DEF LegacyInv
<1>5. ASSUME NEW c \in Consumers, L!Evaluate(c) PROVE LegacyInv' /\ L!FailedIsStuck
  <2> PICK v \in L!Verdicts :
        /\ verdicts' = [verdicts EXCEPT ![L!Signal(c)] = v]
        /\ L!GoTo(c, IF v = "authorize" THEN "route" ELSE "ack")
    BY <1>5 DEF L!Evaluate
  <2>1. worker[c].batch /= <<>> /\ worker[c].at = "evaluate"
        /\ UNCHANGED <<trimmed, unread, lastId, unacked, executed>>
    BY <1>5 DEF L!Evaluate, L!At
  <2>2. /\ worker'[c].at = (IF v = "authorize" THEN "route" ELSE "ack")
        /\ worker'[c].batch = worker[c].batch
        /\ \A d \in Consumers : d /= c => worker'[d] = worker[d]
    BY GoToIs
  <2>3. /\ verdicts'[L!Signal(c)] = v
        /\ \A s \in L!Signals : s /= L!Signal(c) => verdicts'[s] = verdicts[s]
    BY <1>1, <2>1 DEF L!TypeOK
  <2>4. InHand' /\ L!FailedIsStuck
    <3>1. \A d \in Consumers : worker'[d].batch = worker[d].batch
      BY <2>2
    <3>2. Emptier
      BY <3>1, KeepEmptier
    <3>3. \A d \in Consumers : \A i \in DOMAIN worker'[d].batch : worker'[d].batch[i] \in unacked'
      BY <2>1, <3>1 DEF LegacyInv, InHand
    <3> QED
      BY <2>1, <3>2, <3>3, EmptierKeeps
  <2>5. ASSUME NEW d \in Consumers PROVE Point(d)'
    <3>1. CASE d = c
      <4>1. executed[L!Signal(c)] = 0 /\ (v = "authorize" \/ v = "reject")
        BY <1>1, <2>1 DEF LegacyInv, Point, L!Verdicts
      <4>2. \A i \in DOMAIN worker[c].batch : i > 1 => executed[worker[c].batch[i]] = 0
        BY DEF LegacyInv, Point
      <4> QED
        BY <1>1, <2>1, <2>2, <2>3, <3>1, <4>1, <4>2, BatchIs DEF Point, Settled
    <3>2. CASE d /= c
      <4>1. \A i \in DOMAIN worker[d].batch : verdicts'[worker[d].batch[i]] = verdicts[worker[d].batch[i]]
        BY <1>1, <2>1, <2>3, <3>2, BatchIs
      <4> QED
        BY <2>1, <2>2, <3>2, <4>1 DEF LegacyInv, Point, Settled
    <3> QED
      BY <3>1, <3>2
  <2>6. L!AckedIsDone'
    BY <1>1, <2>1, <2>3, LegacySizes DEF LegacyInv, L!AckedIsDone, L!TypeOK, L!Signals
  <2>7. Skipped'
    BY <2>1 DEF LegacyInv, Skipped
  <2> QED
    BY <2>1, <2>4, <2>5, <2>6, <2>7 DEF LegacyInv, L!ExecutedAtMostOnce
<1>6. ASSUME NEW c \in Consumers, worker[c].batch /= <<>>, L!Drop(c),
             UNCHANGED <<trimmed, unread, lastId, verdicts>>,
             unacked' = unacked \/ unacked' = unacked \ {L!Signal(c)},
             \A s \in L!Signals : s /= L!Signal(c) => executed'[s] = executed[s],
             executed'[L!Signal(c)] = executed[L!Signal(c)]
               \/ (executed[L!Signal(c)] = 0 /\ executed'[L!Signal(c)] = 1),
             unacked' /= unacked => Settled(L!Signal(c)) /\ UNCHANGED executed
      PROVE  LegacyInv' /\ L!FailedIsStuck
  <2>1. Emptier /\ \A d \in Consumers : Point(d)'
    BY <1>6, DropPoint
  <2>2. ASSUME NEW d \in Consumers, NEW i \in DOMAIN worker'[d].batch
        PROVE  worker'[d].batch[i] \in unacked'
    <3>1. worker'[d].batch[i] \in unacked
      BY <2>1 DEF Emptier, LegacyInv, InHand
    <3>2. worker'[d].batch[i] /= L!Signal(c)
      <4>1. CASE d = c
        <5>1. /\ i + 1 \in DOMAIN worker[c].batch /\ worker'[c].batch[i] = worker[c].batch[i + 1]
          BY <1>6, <4>1, DropIs
        <5>2. i \in Nat \ {0}
          <6>1. worker'[c].batch \in Seq(L!Signals)
            BY DEF L!TypeOK
          <6> QED
            BY <4>1, <6>1, LenProperties
        <5> QED
          BY <1>1, <1>6, <4>1, <5>1, <5>2
      <4>2. CASE d /= c
        <5>1. worker'[d] = worker[d]
          BY <1>6, <4>2, DropIs
        <5> QED
          BY <1>1, <1>6, <4>2, <5>1
      <4> QED
        BY <4>1, <4>2
    <3> QED
      BY <1>6, <3>1, <3>2
  <2>3. ASSUME NEW s \in unacked, ~L!InBatch(s) PROVE s \in unacked' /\ executed'[s] = executed[s]
    <3>1. s /= L!Signal(c)
      BY <1>1, <1>6, <2>3
    <3>2. s \in L!Signals
      BY LegacySizes DEF L!TypeOK, L!Signals
    <3> QED
      BY <1>6, <3>1, <3>2
  <2>4. InHand' /\ L!FailedIsStuck
    BY <2>1, <2>2, <2>3, EmptierKeeps
  <2>5. L!Signal(c) \in unacked /\ L!Signal(c) \in L!Signals /\ L!Signal(c) <= lastId
        /\ lastId \in Nat /\ \A s \in 1..lastId : s \in L!Signals
    <3>1. worker[c].batch /= <<>>
      BY <1>6
    <3>2. /\ lastId \in Nat /\ published \in Nat /\ lastId <= published /\ published <= MaxSignals
          /\ \A s \in unacked : s <= lastId
      BY LegacySizes DEF L!TypeOK
    <3> QED
      BY <1>1, <3>1, <3>2, LegacySizes DEF L!Signals
  <2>6. ASSUME NEW s \in L!Signals, s > lastId' PROVE executed'[s] = 0
    <3>1. s > lastId /\ s \in Nat /\ executed[s] = 0
      BY <1>0, <1>6, <2>6 DEF LegacyInv
    <3>2. s /= L!Signal(c)
      BY <1>0, <2>5, <3>1
    <3> QED
      BY <1>6, <3>1, <3>2
  <2>7. L!ExecutedAtMostOnce'
    BY <1>0, <1>6, <2>5 DEF LegacyInv, L!ExecutedAtMostOnce
  <2>8. ASSUME NEW s \in (1..lastId) \ unread, s \notin unacked' PROVE Settled(s)'
    <3>1. CASE s = L!Signal(c)
      <4>1. Settled(s) /\ UNCHANGED <<verdicts, executed>>
        BY <1>6, <2>5, <2>8, <3>1
      <4> QED
        BY <4>1 DEF Settled
    <3>2. CASE s /= L!Signal(c)
      BY <1>6, <2>5, <2>8, <3>2 DEF LegacyInv, L!AckedIsDone, Settled
    <3> QED
      BY <3>1, <3>2
  <2>9. L!AckedIsDone'
    BY <1>6, <2>8 DEF L!AckedIsDone, Settled
  <2>10. Skipped'
    BY <1>6 DEF LegacyInv, Skipped
  <2> QED
    BY <2>1, <2>4, <2>6, <2>7, <2>9, <2>10 DEF LegacyInv
<1>7. ASSUME NEW c \in Consumers, L!Route(c) PROVE LegacyInv' /\ L!FailedIsStuck
  <2>1. worker[c].batch /= <<>> /\ worker[c].at = "route" /\ L!GoTo(c, "ack")
        /\ UNCHANGED <<trimmed, unread, lastId, unacked, verdicts>>
    BY <1>7 DEF L!Route, L!At
  <2>2. /\ worker'[c].at = "ack" /\ worker'[c].batch = worker[c].batch
        /\ \A d \in Consumers : d /= c => worker'[d] = worker[d]
    BY <2>1, GoToIs
  <2>3. executed[L!Signal(c)] = 0 /\ verdicts[L!Signal(c)] = "authorize"
    BY <1>1, <2>1 DEF LegacyInv, Point
  <2>4. /\ executed'[L!Signal(c)] = 1
        /\ \A s \in L!Signals : s /= L!Signal(c) => executed'[s] = executed[s]
    BY <1>1, <1>7, <2>1, <2>3 DEF L!Route, L!TypeOK
  <2>5. InHand' /\ L!FailedIsStuck
    <3>1. \A d \in Consumers : worker'[d].batch = worker[d].batch
      BY <2>2
    <3>2. Emptier
      BY <3>1, KeepEmptier
    <3>3. \A d \in Consumers : \A i \in DOMAIN worker'[d].batch : worker'[d].batch[i] \in unacked'
      BY <2>1, <3>1 DEF LegacyInv, InHand
    <3>4. ASSUME NEW s \in unacked, ~L!InBatch(s) PROVE executed'[s] = executed[s]
      <4>1. s /= L!Signal(c)
        BY <1>1, <2>1, <3>4
      <4>2. s \in L!Signals
        BY LegacySizes DEF L!TypeOK, L!Signals
      <4> QED
        BY <2>4, <4>1, <4>2
    <3> QED
      BY <2>1, <3>2, <3>3, <3>4, EmptierKeeps
  <2>6. ASSUME NEW d \in Consumers PROVE Point(d)'
    <3>1. CASE d = c
      <4>1. \A i \in DOMAIN worker[c].batch : i > 1 =>
              executed[worker[c].batch[i]] = 0 /\ worker[c].batch[i] /= L!Signal(c)
              /\ worker[c].batch[i] \in L!Signals
        BY <1>1, <2>1, BatchIs DEF LegacyInv, Point
      <4> QED
        BY <1>1, <2>1, <2>2, <2>3, <2>4, <3>1, <4>1, BatchIs DEF Point, Settled
    <3>2. CASE d /= c
      <4>1. \A i \in DOMAIN worker[d].batch : executed'[worker[d].batch[i]] = executed[worker[d].batch[i]]
        BY <1>1, <2>1, <2>4, <3>2, BatchIs
      <4> QED
        BY <2>1, <2>2, <3>2, <4>1 DEF LegacyInv, Point, Settled
    <3> QED
      BY <3>1, <3>2
  <2>7. L!Signal(c) \in unacked /\ L!Signal(c) \in L!Signals /\ L!Signal(c) <= lastId
        /\ lastId \in Nat /\ \A s \in 1..lastId : s \in L!Signals
    BY <1>1, <2>1, LegacySizes DEF L!TypeOK, L!Signals
  <2>8. \A s \in L!Signals : s > lastId' => executed'[s] = 0
    BY <1>0, <2>1, <2>4, <2>7 DEF LegacyInv
  <2>9. L!ExecutedAtMostOnce' /\ L!AckedIsDone'
    BY <1>0, <2>1, <2>4, <2>7 DEF LegacyInv, L!ExecutedAtMostOnce, L!AckedIsDone
  <2>10. Skipped'
    BY <2>1 DEF LegacyInv, Skipped
  <2> QED
    BY <2>5, <2>6, <2>8, <2>9, <2>10 DEF LegacyInv
<1>8. ASSUME NEW c \in Consumers, L!Ack(c) PROVE LegacyInv' /\ L!FailedIsStuck
  <2>1. /\ worker[c].batch /= <<>> /\ worker[c].at = "ack" /\ L!Drop(c)
        /\ unacked' = unacked \ {L!Signal(c)} /\ UNCHANGED <<trimmed, unread, lastId, verdicts, executed>>
    BY <1>8 DEF L!Ack, L!At
  <2>2. Settled(L!Signal(c))
    BY <1>1, <2>1 DEF LegacyInv, Point
  <2> QED
    BY <1>6, <2>1, <2>2
<1>9. ASSUME NEW c \in Consumers, L!SignalFails(c) PROVE LegacyInv' /\ L!FailedIsStuck
  BY <1>6, <1>9 DEF L!SignalFails
<1>10. ASSUME NEW c \in Consumers, L!ReplyLost(c) PROVE LegacyInv' /\ L!FailedIsStuck
  <2>1. worker[c].batch /= <<>> /\ L!Drop(c) /\ UNCHANGED <<trimmed, unread, lastId, verdicts>>
    BY <1>10 DEF L!ReplyLost
  <2>2. CASE /\ worker[c].at = "route"
             /\ executed' = [executed EXCEPT ![L!Signal(c)] = @ + 1]
             /\ UNCHANGED unacked
    <3>1. executed[L!Signal(c)] = 0
      BY <1>1, <2>1, <2>2 DEF LegacyInv, Point
    <3>2. /\ executed'[L!Signal(c)] = 1
          /\ \A s \in L!Signals : s /= L!Signal(c) => executed'[s] = executed[s]
      BY <1>1, <2>1, <2>2, <3>1 DEF L!TypeOK
    <3> QED
      BY <1>6, <2>1, <2>2, <3>1, <3>2
  <2>3. CASE /\ worker[c].at = "ack"
             /\ unacked' = unacked \ {L!Signal(c)}
             /\ UNCHANGED executed
    <3>1. Settled(L!Signal(c))
      BY <1>1, <2>1, <2>3 DEF LegacyInv, Point
    <3> QED
      BY <1>6, <2>1, <2>3, <3>1
  <2> QED
    BY <1>10, <2>2, <2>3 DEF L!ReplyLost
<1>11. ASSUME NEW c \in Consumers, L!ReadFails(c) PROVE LegacyInv' /\ L!FailedIsStuck
  <2>1. L!Deliver(L!NewEntries) /\ UNCHANGED <<trimmed, unread, worker, verdicts, executed>>
    BY <1>11 DEF L!ReadFails
  <2>2. /\ unacked \subseteq unacked' /\ Skipped'
        /\ \A s \in (1..lastId') \ unread : s \notin unacked' => s \in 1..lastId /\ s \notin unacked
        /\ \A s \in L!Signals : s > lastId' => executed'[s] = 0
    BY <2>1, DeliveredAreNew
  <2>3. InHand' /\ \A d \in Consumers : Point(d)'
    BY <2>1, <2>2 DEF LegacyInv, InHand, Point, Settled
  <2>4. L!ExecutedAtMostOnce' /\ L!AckedIsDone' /\ L!FailedIsStuck
    BY <2>1, <2>2 DEF LegacyInv, L!ExecutedAtMostOnce, L!AckedIsDone, L!FailedIsStuck,
                      L!Stuck, L!InBatch
  <2> QED
    BY <2>2, <2>3, <2>4 DEF LegacyInv
<1>12. ASSUME NEW c \in Consumers, worker' = [worker EXCEPT ![c] = L!Idle] \/ worker' = [worker EXCEPT ![c] = L!Down],
              UNCHANGED <<trimmed, unread, lastId, unacked, verdicts, executed>>
       PROVE  LegacyInv' /\ L!FailedIsStuck
  <2>1. /\ worker'[c].batch = <<>> /\ worker'[c].at = "evaluate"
        /\ \A d \in Consumers : d /= c => worker'[d] = worker[d]
    BY <1>12 DEF L!TypeOK, L!Idle, L!Down
  <2>2. Emptier
    BY <2>1, KeepEmptier
  <2>3. \A d \in Consumers : \A i \in DOMAIN worker'[d].batch : worker'[d].batch[i] \in unacked'
    BY <1>12, <2>1 DEF LegacyInv, InHand
  <2>4. InHand' /\ L!FailedIsStuck
    BY <1>12, <2>2, <2>3, EmptierKeeps
  <2>5. ASSUME NEW d \in Consumers PROVE Point(d)'
    BY <1>12, <2>1 DEF LegacyInv, Point, Settled
  <2> QED
    BY <1>12, <2>4, <2>5 DEF LegacyInv, Skipped, L!ExecutedAtMostOnce, L!AckedIsDone
<1>13. ASSUME NEW c \in Consumers, L!Crash(c) PROVE LegacyInv' /\ L!FailedIsStuck
  BY <1>12, <1>13 DEF L!Crash
<1>14. ASSUME NEW c \in Consumers, L!Start(c) PROVE LegacyInv' /\ L!FailedIsStuck
  BY <1>12, <1>14 DEF L!Start
<1>15. ASSUME NEW c \in Consumers, L!StartFails(c) PROVE LegacyInv' /\ L!FailedIsStuck
  <2>1. /\ UNCHANGED <<trimmed, unread, lastId, unacked, verdicts, executed>>
        /\ \A d \in Consumers : worker'[d].batch = worker[d].batch /\ worker'[d].at = worker[d].at
    BY <1>15 DEF L!StartFails, L!TypeOK
  <2> QED
    BY <2>1 DEF LegacyInv, InHand, Skipped, Point, Settled, L!ExecutedAtMostOnce, L!AckedIsDone,
                L!FailedIsStuck, L!Stuck, L!InBatch
<1>16. CASE UNCHANGED L!vars
  BY <1>2, <1>16 DEF L!vars, LegacyInv, Skipped
<1> QED
  BY <1>3, <1>4, <1>5, <1>7, <1>8, <1>9, <1>10, <1>11, <1>13, <1>14, <1>15, <1>16
     DEF L!Next, L!ConsumerStep

\* The older consumer executes an authorized signal at most once, acknowledges
\* only what is settled, and never comes back to a signal that failed in its
\* hands or in a dead consumer's, for any number of consumers and faults and
\* whatever the stream's MAXLEN trims, before or after it was read.
THEOREM HandledOnceOrStuckTheorem == Spec => HandledOnceOrStuck
<1>1. L!Spec => []L!TypeOK
  BY LegacyTypeInit, LegacyTypeNext, PTL DEF L!Spec
<1>2. L!Spec => []LegacyInv
  BY <1>1, LegacyInvInit, LegacyInvNext, PTL DEF L!Spec
<1>3. L!TypeOK /\ LegacyInv /\ L!TypeOK' /\ LegacyInv' /\ [L!Next]_(L!vars)
      => [L!FailedIsStuck /\ L!ExecutedAtMostOnce' /\ L!AckedIsDone']_(L!vars)
  BY LegacyInvNext DEF LegacyInv
<1>4. L!Spec => L!HandledOnceOrStuck
  BY <1>1, <1>2, <1>3, PTL DEF L!Spec, L!HandledOnceOrStuck
<1> QED
  BY <1>4, ServicesRun DEF HandledOnceOrStuck
=============================================================================
