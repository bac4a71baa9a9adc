-------------------------- MODULE TradeMemory_proofs --------------------------
(* Theorems about TradeMemory, for any number of engines and trades. *)
EXTENDS TradeMemory, TLAPS

LEMMA Bounds == BatchSize \in Nat /\ MaxTrades \in Nat /\ MaxTime \in Nat
                /\ MaxFailures \in Nat
BY BoundsAssumption

-----------------------------------------------------------------------------
(* Type correctness *)

\* An engine's own step keeps its state well-typed when its new state is.
LEMMA EngineType ==
  ASSUME TypeOK, NEW g \in Engines, NEW s \in EngineState,
         engine' = [engine EXCEPT ![g] = s]
  PROVE  engine' \in [Engines -> EngineState]
BY DEF TypeOK

LEMMA TypeInit == Init => TypeOK
BY Bounds DEF Init, TypeOK, Idle, EngineState, Times

LEMMA TypeNext == TypeOK /\ [Next]_vars => TypeOK'
<1> SUFFICES ASSUME TypeOK, [Next]_vars PROVE TypeOK'
  OBVIOUS
<1> USE DEF vars, tradeVars, historyVars
<1>1. CASE Tick
  <2>1. clock' \in Times
    BY <1>1, Bounds DEF TypeOK, Tick, Times
  <2> QED
    BY <1>1, <2>1 DEF TypeOK, Tick
<1>2. ASSUME NEW t \in Trades, NEW k \in Kinds, NEW e \in Times, Add(t, k, e)
      PROVE  TypeOK'
  <2>1. k # "absent"
    BY KindsAssumption DEF AllKinds
  <2>2. /\ kind' \in [Trades -> Kinds \union {"absent"}]
        /\ expiry' \in [Trades -> Times]
    BY <1>2 DEF TypeOK, Add
  <2>3. pending' \in SUBSET {s \in Trades : kind'[s] # "absent"}
    BY <1>2, <2>1 DEF TypeOK, Add
  <2> QED
    BY <1>2, <2>2, <2>3 DEF TypeOK, Add
<1>3. ASSUME NEW g \in Engines, EngineStep(g) PROVE TypeOK'
  <2> DEFINE s == engine[g]
  <2>0. s \in EngineState
    BY DEF TypeOK
  <2>1. CASE BeginCycle(g)
    <3>1. [s EXCEPT !.pc = "purge", !.now = clock] \in EngineState
      BY <2>0 DEF EngineState, TypeOK
    <3>2. engine' = [engine EXCEPT ![g] = [s EXCEPT !.pc = "purge", !.now = clock]]
      BY <2>1 DEF BeginCycle
    <3> QED
      BY <2>1, <3>1, <3>2, EngineType DEF TypeOK, BeginCycle
  <2>2. CASE Purge(g)
    <3>1. [s EXCEPT !.pc = "scan"] \in EngineState
      BY <2>0 DEF EngineState
    <3>2. engine' = [engine EXCEPT ![g] = [s EXCEPT !.pc = "scan"]]
      BY <2>2 DEF Purge
    <3> QED
      BY <2>2, <3>1, <3>2, EngineType DEF TypeOK, Purge
  <2>3. CASE Scan(g)
    <3>1. Idle \in EngineState
      BY Bounds DEF Idle, EngineState, Times
    <3>2. Batch(s.now) \subseteq Trades
      BY DEF Batch, TypeOK
    <3>3. ASSUME NEW hits \in SUBSET Trades, NEW queue \in SUBSET Trades
          PROVE  [s EXCEPT !.pc = "pipeline", !.hits = hits, !.queue = queue]
                   \in EngineState
      BY <2>0 DEF EngineState
    <3>4. \E n \in EngineState : engine' = [engine EXCEPT ![g] = n]
      <4>1. CASE engine' = [engine EXCEPT ![g] = Idle]
        BY <3>1, <4>1
      <4>2. ASSUME NEW hits \in SUBSET {t \in Batch(s.now) : kind[t] = "tracked"},
                   engine' = [engine EXCEPT
                     ![g].pc = "pipeline", ![g].hits = hits,
                     ![g].queue = hits \union
                        {t \in Batch(s.now) : kind[t] = "corrupt"}]
            PROVE  \E n \in EngineState : engine' = [engine EXCEPT ![g] = n]
        <5> DEFINE queue == hits \union {t \in Batch(s.now) : kind[t] = "corrupt"}
        <5>1. hits \in SUBSET Trades /\ queue \in SUBSET Trades
          BY <3>2
        <5>2. engine' = [engine EXCEPT ![g] =
                [s EXCEPT !.pc = "pipeline", !.hits = hits, !.queue = queue]]
          BY <4>2
        <5> QED
          BY <3>3, <5>1, <5>2
      <4> QED
        BY <2>3, <4>1, <4>2 DEF Scan
    <3> QED
      BY <2>3, <3>4, EngineType DEF TypeOK, Scan
  <2>4. ASSUME NEW t \in s.queue, DropCorrupt(g, t) PROVE TypeOK'
    <3>1. [s EXCEPT !.queue = @ \ {t}] \in EngineState
      BY <2>0 DEF EngineState
    <3>2. engine' = [engine EXCEPT ![g] = [s EXCEPT !.queue = @ \ {t}]]
      BY <2>4 DEF DropCorrupt
    <3> QED
      BY <2>4, <3>1, <3>2, EngineType DEF TypeOK, DropCorrupt
  <2>5. ASSUME NEW t \in s.queue, Promote(g, t) PROVE TypeOK'
    <3>1. [s EXCEPT !.queue = @ \ {t}] \in EngineState
      BY <2>0 DEF EngineState
    <3>2. engine' = [engine EXCEPT ![g] = [s EXCEPT !.queue = @ \ {t}]]
      BY <2>5 DEF Promote
    <3>3. promotions' \in [Engines -> [Trades -> Nat]]
      BY <2>0, <2>5 DEF Promote, TypeOK, EngineState
    <3> QED
      BY <2>5, <3>1, <3>2, <3>3, EngineType DEF TypeOK, Promote
  <2>6. CASE RemoveHits(g)
    <3>1. Idle \in EngineState
      BY Bounds DEF Idle, EngineState, Times
    <3> QED
      BY <2>6, <3>1, EngineType DEF TypeOK, RemoveHits
  <2> QED
    BY <1>3, <2>1, <2>2, <2>3, <2>4, <2>5, <2>6 DEF EngineStep
<1>4. ASSUME NEW g \in Engines, CycleFails(g) PROVE TypeOK'
  <2>1. Idle \in EngineState
    BY Bounds DEF Idle, EngineState, Times
  <2>2. failures' \in [Engines -> 0..MaxFailures]
    BY <1>4, Bounds DEF TypeOK, CycleFails
  <2> QED
    BY <1>4, <2>1, <2>2, EngineType DEF TypeOK, CycleFails
<1>5. ASSUME NEW g \in Engines, Replay(g) PROVE TypeOK'
  <2> DEFINE s == [engine[g] EXCEPT !.queue = @ \union engine[g].hits,
                                    !.replayed = TRUE]
  <2>1. s \in EngineState
    BY DEF TypeOK, EngineState
  <2>2. engine' = [engine EXCEPT ![g] = s]
    BY <1>5 DEF Replay
  <2>3. failures' \in [Engines -> 0..MaxFailures]
    BY <1>5, Bounds DEF TypeOK, Replay
  <2>4. pending' \subseteq pending
    BY <1>5 DEF Replay
  <2>5. engine' \in [Engines -> EngineState]
    BY <2>1, <2>2, EngineType
  <2> QED
    BY <1>5, <2>3, <2>4, <2>5 DEF TypeOK, Replay
<1>6. CASE UNCHANGED vars
  BY <1>6 DEF TypeOK
<1> QED
  BY <1>1, <1>2, <1>3, <1>4, <1>5, <1>6 DEF Next

\* The sorted set, the engines and the stream keep their types.
THEOREM TypeCorrect == Spec => []TypeOK
BY TypeInit, TypeNext, PTL DEF Spec

-----------------------------------------------------------------------------
(* The inductive invariant: why nothing is lost or promoted without bound *)

\* The members an engine acts on, and when: hits were tracked and alive as its
\* cycle began, and they have reached the match stream once they left the queue.
Orderly(g) ==
  /\ engine[g].pc # "pipeline" => engine[g].hits = {} /\ engine[g].queue = {}
  /\ engine[g].now <= clock
  /\ \A t \in engine[g].hits :
       /\ kind[t] = "tracked" /\ engine[g].now <= expiry[t]
       /\ t \in engine[g].queue \/ promotions[g][t] > 0
  /\ \A t \in engine[g].queue : t \in engine[g].hits \/ kind[t] = "corrupt"

\* The engine may still promote t: it is queued, or a later scan can find it.
MayPromote(g, t) ==
  \/ kind[t] = "absent" \/ t \in engine[g].queue
  \/ t \in pending /\ t \notin engine[g].hits

\* As long as it may, the engine has promoted t only in cycles that failed or pipelines
\* that timed out.
Budget(g) ==
  \A t \in Trades :
    /\ MayPromote(g, t) => promotions[g][t] <= failures[g]
    /\ promotions[g][t] <= 1 + failures[g]

MemoryInv ==
  /\ \A g \in Engines : Orderly(g) /\ Budget(g)
  /\ NothingLost

\* Another engine's step, or the environment's, keeps an engine in order.
LEMMA BystanderOrderly ==
  ASSUME TypeOK, TypeOK', NEW g \in Engines, Orderly(g),
         engine'[g] = engine[g], promotions'[g] = promotions[g],
         clock <= clock',
         \A t \in Trades : kind[t] # "absent" =>
           kind'[t] = kind[t] /\ expiry'[t] = expiry[t]
  PROVE  Orderly(g)'
<1>1. engine[g].now \in Nat /\ clock \in Nat /\ clock' \in Nat
      /\ engine[g].hits \subseteq Trades /\ engine[g].queue \subseteq Trades
  BY Bounds DEF TypeOK, EngineState, Times
<1> QED
  BY <1>1 DEF Orderly

\* Leaving the set never gives an engine a promotion more to do.
LEMMA BystanderBudget ==
  ASSUME NEW g \in Engines, Budget(g),
         engine'[g] = engine[g], promotions'[g] = promotions[g],
         failures'[g] = failures[g],
         \A t \in Trades : kind'[t] = "absent" => kind[t] = "absent",
         \A t \in pending' : t \in pending \/ kind[t] = "absent"
  PROVE  Budget(g)'
BY DEF Budget, MayPromote

LEMMA MemoryInit == Init => MemoryInv
<1> SUFFICES ASSUME Init PROVE MemoryInv
  OBVIOUS
<1>1. ASSUME NEW g \in Engines PROVE Orderly(g) /\ Budget(g)
  BY Bounds DEF Init, Orderly, Budget, Idle
<1> QED
  BY <1>1 DEF MemoryInv, Init, NothingLost

\* A step of engine g disturbs no other engine.
LEMMA EngineAlone ==
  ASSUME TypeOK, TypeOK', MemoryInv, NEW g \in Engines,
         UNCHANGED <<clock, tradeVars>>, pending' \subseteq pending,
         \A h \in Engines \ {g} :
           /\ engine'[h] = engine[h] /\ promotions'[h] = promotions[h]
           /\ failures'[h] = failures[h],
         Orderly(g)', Budget(g)', NothingLost'
  PROVE  MemoryInv'
<1>1. ASSUME NEW h \in Engines \ {g} PROVE Orderly(h)' /\ Budget(h)'
  <2>0. Orderly(h) /\ Budget(h)
    BY DEF MemoryInv
  <2>1. Orderly(h)'
    <3>1. clock <= clock'
      BY Bounds DEF tradeVars, TypeOK, Times
    <3> QED
      BY <2>0, <3>1, BystanderOrderly DEF tradeVars
  <2>2. Budget(h)'
    BY <2>0, BystanderBudget DEF tradeVars
  <2> QED
    BY <2>1, <2>2
<1> QED
  BY <1>1 DEF MemoryInv

\* Removing only what was promoted, has expired or is corrupt loses nothing.
LEMMA StillNothingLost ==
  ASSUME TypeOK, TypeOK', NothingLost, UNCHANGED <<clock, tradeVars>>,
         \A g \in Engines, t \in Trades : promotions[g][t] <= promotions'[g][t],
         \A t \in pending \ pending' :
           Promoted(t) \/ expiry[t] <= clock \/ kind[t] = "corrupt"
  PROVE  NothingLost'
<1>1. \A t \in Trades : Promoted(t) => Promoted(t)'
  BY DEF Promoted, TypeOK
<1> QED
  BY <1>1 DEF NothingLost, tradeVars

LEMMA MemoryNext == TypeOK /\ TypeOK' /\ MemoryInv /\ [Next]_vars => MemoryInv'
<1> SUFFICES ASSUME TypeOK, TypeOK', MemoryInv, [Next]_vars PROVE MemoryInv'
  OBVIOUS
<1>0. /\ clock \in Nat /\ \A g \in Engines : Orderly(g) /\ Budget(g)
      /\ \A g \in Engines, t \in Trades : promotions[g][t] \in Nat
      /\ \A g \in Engines : failures[g] \in Nat
      /\ \A t \in Trades : expiry[t] \in Nat
  BY Bounds DEF TypeOK, MemoryInv, Times
<1> USE DEF vars, historyVars
<1>1. CASE Tick
  <2>1. clock <= clock' /\ UNCHANGED <<tradeVars, pending, engine, historyVars>>
    BY <1>0, <1>1 DEF Tick
  <2>2. \A g \in Engines : Orderly(g)'
    BY <1>0, <2>1, BystanderOrderly DEF tradeVars
  <2>3. \A g \in Engines : Budget(g)'
    BY <1>0, <2>1, BystanderBudget DEF tradeVars
  <2>4. NothingLost'
    BY <1>0, <2>1 DEF MemoryInv, NothingLost, Promoted, TypeOK, Times, tradeVars
  <2> QED
    BY <2>2, <2>3, <2>4 DEF MemoryInv
<1>2. ASSUME NEW t \in Trades, NEW k \in Kinds, NEW e \in Times, Add(t, k, e)
      PROVE  MemoryInv'
  <2>1. /\ UNCHANGED <<clock, engine, historyVars>> /\ kind[t] = "absent"
        /\ pending' = pending \union {t}
        /\ \A s \in Trades \ {t} : kind'[s] = kind[s] /\ expiry'[s] = expiry[s]
    BY <1>2 DEF Add, TypeOK
  <2>2. \A g \in Engines : Orderly(g)'
    BY <1>0, <2>1, BystanderOrderly
  <2>3. kind'[t] # "absent"
    BY <1>2, KindsAssumption DEF Add, TypeOK, AllKinds
  <2>4. \A g \in Engines : Budget(g)'
    BY <1>0, <2>1, <2>3, BystanderBudget
  <2>5. NothingLost'
    BY <2>1 DEF MemoryInv, NothingLost, Promoted
  <2> QED
    BY <2>2, <2>4, <2>5 DEF MemoryInv
<1>3. ASSUME NEW g \in Engines, EngineStep(g) PROVE MemoryInv'
  <2> DEFINE s == engine[g]
  <2>0. s \in EngineState /\ Orderly(g) /\ Budget(g) /\ NothingLost
    BY <1>0 DEF TypeOK, MemoryInv
  <2>1. CASE BeginCycle(g)
    <3>1. engine'[g] = [s EXCEPT !.pc = "purge", !.now = clock]
          /\ \A h \in Engines \ {g} : engine'[h] = engine[h]
      BY <2>1 DEF BeginCycle, TypeOK
    <3>2. UNCHANGED <<clock, tradeVars, pending, historyVars>>
      BY <2>1 DEF BeginCycle
    <3>3. s.pc # "pipeline"
      BY <2>1 DEF BeginCycle
    <3>4. Orderly(g)'
      BY <1>0, <2>0, <3>1, <3>2, <3>3 DEF Orderly, EngineState, tradeVars
    <3>5. Budget(g)'
      BY <2>0, <3>1, <3>2 DEF Budget, MayPromote, EngineState, tradeVars
    <3>6. NothingLost'
      BY <2>0, <3>2 DEF NothingLost, Promoted, tradeVars
    <3> QED
      BY <3>1, <3>2, <3>4, <3>5, <3>6, EngineAlone
  <2>2. CASE Purge(g)
    <3>1. engine'[g] = [s EXCEPT !.pc = "scan"]
          /\ \A h \in Engines \ {g} : engine'[h] = engine[h]
      BY <2>2 DEF Purge, TypeOK
    <3>2. UNCHANGED <<clock, tradeVars, historyVars>>
          /\ pending' = {t \in pending : expiry[t] > s.now}
      BY <2>2 DEF Purge
    <3>3. s.pc # "pipeline"
      BY <2>2 DEF Purge
    <3>4. Orderly(g)'
      BY <2>0, <3>1, <3>2, <3>3 DEF Orderly, EngineState, tradeVars
    <3>5. Budget(g)'
      BY <2>0, <3>1, <3>2 DEF Budget, MayPromote, EngineState, tradeVars
    <3>6. \A t \in pending \ pending' : expiry[t] <= clock
      <4>1. s.now \in Nat /\ s.now <= clock /\ pending \subseteq Trades
        BY <2>0, Bounds DEF EngineState, Times, Orderly, TypeOK
      <4> QED
        BY <1>0, <3>2, <4>1
    <3>7. NothingLost'
      BY <1>0, <2>0, <3>2, <3>6, StillNothingLost
    <3> QED
      BY <3>1, <3>2, <3>4, <3>5, <3>7, EngineAlone
  <2>3. CASE Scan(g)
    <3>0. UNCHANGED <<clock, tradeVars, pending, historyVars>> /\ s.pc = "scan"
      BY <2>3 DEF Scan
    <3>1. s.hits = {} /\ s.queue = {}
      BY <2>0, <3>0 DEF Orderly
    <3>2. NothingLost'
      BY <2>0, <3>0 DEF NothingLost, Promoted, tradeVars
    <3>3. CASE engine' = [engine EXCEPT ![g] = Idle]
      <4>1. engine'[g] = Idle /\ \A h \in Engines \ {g} : engine'[h] = engine[h]
        BY <3>3 DEF TypeOK
      <4>2. Orderly(g)'
        BY <1>0, <3>0, <4>1 DEF Orderly, Idle
      <4>3. Budget(g)'
        BY <2>0, <3>0, <3>1, <4>1 DEF Budget, MayPromote, Idle, tradeVars
      <4> QED
        BY <3>0, <3>2, <4>1, <4>2, <4>3, EngineAlone
    <3>4. ASSUME NEW hits \in SUBSET {t \in Batch(s.now) : kind[t] = "tracked"},
                 engine' = [engine EXCEPT
                   ![g].pc = "pipeline", ![g].hits = hits,
                   ![g].queue = hits \union
                      {t \in Batch(s.now) : kind[t] = "corrupt"}]
          PROVE  MemoryInv'
      <4> DEFINE queue == hits \union {t \in Batch(s.now) : kind[t] = "corrupt"}
      <4>1. engine'[g] = [s EXCEPT !.pc = "pipeline", !.hits = hits, !.queue = queue]
            /\ \A h \in Engines \ {g} : engine'[h] = engine[h]
        BY <3>4 DEF TypeOK
      <4>2. \A t \in Batch(s.now) : t \in pending /\ s.now <= expiry[t]
        BY DEF Batch
      <4>3. /\ \A t \in hits : kind[t] = "tracked" /\ s.now <= expiry[t]
            /\ hits \subseteq queue /\ queue \subseteq pending
            /\ \A t \in queue : t \in hits \/ kind[t] = "corrupt"
        BY <4>2
      <4> HIDE DEF queue
      <4>4. Orderly(g)'
        BY <2>0, <3>0, <4>1, <4>3 DEF Orderly, EngineState, tradeVars
      <4>5. Budget(g)'
        BY <2>0, <3>0, <3>1, <4>1, <4>3
           DEF Budget, MayPromote, EngineState, tradeVars
      <4> QED
        BY <3>0, <3>2, <4>1, <4>4, <4>5, EngineAlone
    <3> QED
      BY <2>3, <3>3, <3>4 DEF Scan
  <2>4. ASSUME NEW t \in s.queue, DropCorrupt(g, t) PROVE MemoryInv'
    <3>1. engine'[g] = [s EXCEPT !.queue = @ \ {t}]
          /\ \A h \in Engines \ {g} : engine'[h] = engine[h]
      BY <2>4 DEF DropCorrupt, TypeOK
    <3>2. UNCHANGED <<clock, tradeVars, historyVars>> /\ pending' = pending \ {t}
          /\ kind[t] = "corrupt" /\ s.pc = "pipeline"
      BY <2>4 DEF DropCorrupt, IsNextCommand
    <3>3. t \notin s.hits
      BY <2>0, <3>2 DEF Orderly
    <3>4. Orderly(g)'
      BY <2>0, <3>1, <3>2, <3>3 DEF Orderly, EngineState, tradeVars
    <3>5. Budget(g)'
      BY <2>0, <3>1, <3>2 DEF Budget, MayPromote, EngineState, tradeVars
    <3>6. NothingLost'
      BY <1>0, <2>0, <3>2, StillNothingLost
    <3> QED
      BY <3>1, <3>2, <3>4, <3>5, <3>6, EngineAlone
  <2>5. ASSUME NEW t \in s.queue, Promote(g, t) PROVE MemoryInv'
    <3>0. t \in Trades
      BY <2>0 DEF EngineState
    <3>1. engine'[g] = [s EXCEPT !.queue = @ \ {t}]
          /\ \A h \in Engines \ {g} : engine'[h] = engine[h]
      BY <2>5 DEF Promote, TypeOK
    <3>2. UNCHANGED <<clock, tradeVars, pending, failures>> /\ s.pc = "pipeline"
          /\ kind[t] # "corrupt"
      BY <2>5 DEF Promote, IsNextCommand
    <3>3. /\ promotions'[g][t] = promotions[g][t] + 1
          /\ \A u \in Trades \ {t} : promotions'[g][u] = promotions[g][u]
          /\ \A h \in Engines \ {g} : promotions'[h] = promotions[h]
      <4>1. promotions' = [promotions EXCEPT ![g] =
                             [promotions[g] EXCEPT ![t] = promotions[g][t] + 1]]
        BY <2>5 DEF Promote
      <4> QED
        BY <3>0, <4>1 DEF TypeOK
    <3>4. t \in s.hits
      BY <2>0, <3>2 DEF Orderly
    <3>5. Orderly(g)'
      <4>1. s.hits \subseteq Trades
        BY <2>0 DEF EngineState
      <4> QED
        BY <1>0, <2>0, <3>0, <3>1, <3>2, <3>3, <4>1
           DEF Orderly, EngineState, tradeVars
    <3>6. Budget(g)'
      <4>1. promotions[g][t] <= failures[g] /\ kind[t] # "absent"
        BY <2>0, <3>0, <3>4 DEF Budget, MayPromote, Orderly
      <4> QED
        BY <1>0, <2>0, <3>0, <3>1, <3>2, <3>3, <3>4, <4>1
           DEF Budget, MayPromote, EngineState, tradeVars
    <3>7. \A h \in Engines, u \in Trades : promotions[h][u] <= promotions'[h][u]
      BY <1>0, <3>0, <3>3
    <3>8. NothingLost'
      BY <2>0, <3>2, <3>7, StillNothingLost
    <3> QED
      BY <3>1, <3>2, <3>3, <3>5, <3>6, <3>8, EngineAlone
  <2>6. CASE RemoveHits(g)
    <3>1. engine'[g] = Idle /\ \A h \in Engines \ {g} : engine'[h] = engine[h]
      BY <2>6 DEF RemoveHits, TypeOK
    <3>2. UNCHANGED <<clock, tradeVars, historyVars>>
          /\ pending' = pending \ s.hits /\ s.queue = {}
      BY <2>6 DEF RemoveHits
    <3>3. Orderly(g)'
      BY <1>0, <3>1, <3>2 DEF Orderly, Idle
    <3>4. Budget(g)'
      BY <2>0, <3>1, <3>2 DEF Budget, MayPromote, Idle, tradeVars
    <3>5. \A t \in pending \ pending' : Promoted(t)
      BY <2>0, <3>2 DEF Orderly, Promoted
    <3>6. NothingLost'
      BY <1>0, <2>0, <3>2, <3>5, StillNothingLost
    <3> QED
      BY <3>1, <3>2, <3>3, <3>4, <3>6, EngineAlone
  <2> QED
    BY <1>3, <2>1, <2>2, <2>3, <2>4, <2>5, <2>6 DEF EngineStep
<1>4. ASSUME NEW g \in Engines, CycleFails(g) PROVE MemoryInv'
  <2>0. Orderly(g) /\ Budget(g) /\ NothingLost
    BY <1>0 DEF MemoryInv
  <2>1. engine'[g] = Idle /\ \A h \in Engines \ {g} : engine'[h] = engine[h]
    BY <1>4 DEF CycleFails, TypeOK
  <2>2. UNCHANGED <<clock, tradeVars, pending, promotions>>
        /\ failures'[g] = failures[g] + 1
        /\ \A h \in Engines \ {g} : failures'[h] = failures[h]
    BY <1>4 DEF CycleFails, TypeOK
  <2>3. Orderly(g)'
    BY <1>0, <2>1, <2>2 DEF Orderly, Idle
  <2>4. Budget(g)'
    BY <1>0, <2>0, <2>1, <2>2 DEF Budget, MayPromote, Idle, tradeVars
  <2>5. NothingLost'
    BY <2>0, <2>2 DEF NothingLost, Promoted, tradeVars
  <2> QED
    BY <2>1, <2>2, <2>3, <2>4, <2>5, EngineAlone
<1>5. ASSUME NEW g \in Engines, Replay(g) PROVE MemoryInv'
  <2> DEFINE s == engine[g]
  <2>0. s \in EngineState /\ Orderly(g) /\ Budget(g) /\ NothingLost
    BY <1>0 DEF TypeOK, MemoryInv
  <2>1. engine'[g] = [s EXCEPT !.queue = @ \union s.hits, !.replayed = TRUE]
        /\ \A h \in Engines \ {g} : engine'[h] = engine[h]
    BY <1>5 DEF Replay, TypeOK
  <2>2. /\ UNCHANGED <<clock, tradeVars, promotions>> /\ s.pc = "pipeline"
        /\ failures'[g] = failures[g] + 1
        /\ \A h \in Engines \ {g} : failures'[h] = failures[h]
    BY <1>5 DEF Replay, TypeOK
  <2>3. \/ pending' = pending
        \/ s.queue = {} /\ pending' = pending \ s.hits
    BY <1>5 DEF Replay
  <2>4. Orderly(g)'
    BY <2>0, <2>1, <2>2 DEF Orderly, EngineState, tradeVars
  <2>5. Budget(g)'
    <3>1. \A t \in Trades : promotions[g][t] <= 1 + failures[g]
      BY <2>0 DEF Budget
    <3> QED
      BY <1>0, <2>2, <3>1 DEF Budget, tradeVars
  <2>6. \A t \in pending \ pending' : Promoted(t)
    BY <2>0, <2>3 DEF Orderly, Promoted
  <2>7. NothingLost'
    <3>1. \A h \in Engines, t \in Trades : promotions[h][t] <= promotions'[h][t]
      BY <1>0, <2>2
    <3> QED
      BY <2>0, <2>2, <2>6, <3>1, StillNothingLost
  <2> QED
    BY <2>1, <2>2, <2>3, <2>4, <2>5, <2>7, EngineAlone
<1>6. CASE UNCHANGED vars
  BY <1>6 DEF MemoryInv, NothingLost, Orderly, Budget, MayPromote, Promoted,
              tradeVars
<1> QED
  BY <1>1, <1>2, <1>3, <1>4, <1>5, <1>6 DEF Next

\* What each engine queued was alive as its cycle began, and is promoted in
\* no more rounds than one per failure or timeout and a last one.
THEOREM MemorySafety == Spec => []MemoryInv
<1>1. Spec => []TypeOK
  BY TypeCorrect
<1> QED
  BY <1>1, MemoryInit, MemoryNext, PTL DEF Spec

\* However many engines share the set, whatever cycles fail or pipelines are sent
\* twice, a trade leaves
\* it only promoted, expired or corrupt.
THEOREM NothingLostTheorem == Spec => []NothingLost
<1>1. MemoryInv => NothingLost
  BY DEF MemoryInv
<1> QED
  BY <1>1, MemorySafety, PTL

\* An engine promotes a trade at most once more than its cycles failed and its
\* pipelines timed out.
THEOREM PromotionsBoundedTheorem == Spec => []PromotionsBounded
<1>1. MemoryInv => PromotionsBounded
  BY DEF MemoryInv, Budget, PromotionsBounded
<1> QED
  BY <1>1, MemorySafety, PTL

\* A promoted trade was tracked and had not expired when the cycle began.
THEOREM NoPromotionOfTheDeadTheorem == Spec => NoPromotionOfTheDead
<1>1. TypeOK /\ MemoryInv /\ [Next]_vars => [PromotesAlive]_vars
  <2> SUFFICES ASSUME TypeOK, MemoryInv, Next PROVE PromotesAlive
    BY DEF PromotesAlive, vars, historyVars
  <2> USE DEF historyVars
  <2>1. ASSUME NEW g \in Engines, NEW t \in engine[g].queue, Promote(g, t)
        PROVE  PromotesAlive
    <3>1. t \in Trades /\ t \in engine[g].hits
      BY <2>1 DEF MemoryInv, Orderly, Promote, TypeOK, EngineState
    <3>2. \A h \in Engines, u \in Trades :
            h # g \/ u # t => promotions'[h][u] = promotions[h][u]
      <4>1. promotions' = [promotions EXCEPT ![g] =
                             [promotions[g] EXCEPT ![t] = promotions[g][t] + 1]]
        BY <2>1 DEF Promote
      <4> QED
        BY <3>1, <4>1 DEF TypeOK
    <3> QED
      BY <3>1, <3>2 DEF PromotesAlive, MemoryInv, Orderly
  <2>2. ASSUME promotions' = promotions PROVE PromotesAlive
    BY <2>2 DEF PromotesAlive
  <2> QED
    BY <2>1, <2>2 DEF Next, Tick, Add, EngineStep, BeginCycle, Purge, Scan,
                      DropCorrupt, RemoveHits, Replay, CycleFails
<1> QED
  BY <1>1, TypeCorrect, MemorySafety, PTL DEF Spec, NoPromotionOfTheDead

-----------------------------------------------------------------------------
(* One engine *)

\* With one engine, what it is about to promote is still in the set; after a
\* replay, in the set or promoted already.
OwnsPending ==
  \A g \in Engines : Engines = {g} =>
    \A t \in engine[g].hits :
      t \in pending \/ (engine[g].replayed /\ promotions[g][t] > 0)

LEMMA OwnsInit == Init => OwnsPending
BY DEF Init, OwnsPending, Idle

LEMMA OwnsNext ==
  TypeOK /\ MemoryInv /\ OwnsPending /\ [Next]_vars => OwnsPending'
<1> SUFFICES ASSUME TypeOK, MemoryInv, OwnsPending, [Next]_vars,
                    NEW g \in Engines, Engines = {g}
             PROVE  \A t \in engine'[g].hits :
                      t \in pending' \/ (engine'[g].replayed /\ promotions'[g][t] > 0)
  BY DEF OwnsPending
<1> DEFINE s == engine[g]
<1> DEFINE Owned ==
      \A t \in engine'[g].hits :
        t \in pending' \/ (engine'[g].replayed /\ promotions'[g][t] > 0)
<1>0. /\ s \in EngineState /\ Orderly(g) /\ engine = [h \in {g} |-> s]
      /\ \A t \in s.hits : t \in pending \/ (s.replayed /\ promotions[g][t] > 0)
  BY DEF TypeOK, OwnsPending, MemoryInv
<1>a. \A t \in Trades : promotions[g][t] \in Nat
  BY DEF TypeOK
<1> USE DEF EngineState, historyVars
<1>1. CASE BeginCycle(g)
  BY <1>0, <1>1 DEF BeginCycle
<1>2. CASE Purge(g)
  BY <1>0, <1>2 DEF Purge, Orderly
<1>3. CASE Scan(g)
  <2>1. CASE engine' = [engine EXCEPT ![g] = Idle]
    BY <1>0, <2>1 DEF Idle
  <2>2. ASSUME NEW hits \in SUBSET {t \in Batch(s.now) : kind[t] = "tracked"},
               engine' = [engine EXCEPT
                 ![g].pc = "pipeline", ![g].hits = hits,
                 ![g].queue = hits \union
                    {t \in Batch(s.now) : kind[t] = "corrupt"}]
        PROVE  engine'[g].hits \subseteq pending
    <3> DEFINE queue == hits \union {t \in Batch(s.now) : kind[t] = "corrupt"}
    <3>1. hits \subseteq pending
      BY DEF Batch
    <3>2. engine'[g] = [s EXCEPT !.pc = "pipeline", !.hits = hits, !.queue = queue]
      BY <1>0, <2>2
    <3> HIDE DEF queue
    <3> QED
      BY <1>0, <3>1, <3>2
  <2>3. pending' = pending
    BY <1>3 DEF Scan
  <2> QED
    BY <1>3, <2>1, <2>2, <2>3 DEF Scan
<1>4. ASSUME NEW t \in s.queue, DropCorrupt(g, t) PROVE Owned
  <2>1. engine'[g] = [s EXCEPT !.queue = @ \ {t}] /\ pending' = pending \ {t}
        /\ kind[t] = "corrupt" /\ promotions' = promotions
    BY <1>0, <1>4 DEF DropCorrupt
  <2>2. t \notin s.hits
    BY <1>0, <2>1 DEF Orderly
  <2> QED
    BY <1>0, <2>1, <2>2
<1>5. ASSUME NEW t \in s.queue, Promote(g, t) PROVE Owned
  <2>1. engine'[g] = [s EXCEPT !.queue = @ \ {t}] /\ pending' = pending
    BY <1>0, <1>5 DEF Promote
  <2>2. t \in Trades /\ s.hits \subseteq Trades
    BY <1>0
  <2>3. \A u \in Trades : promotions[g][u] <= promotions'[g][u]
    <3>1. promotions' = [promotions EXCEPT ![g] =
                           [promotions[g] EXCEPT ![t] = promotions[g][t] + 1]]
      BY <1>5 DEF Promote
    <3> QED
      BY <1>a, <2>2, <3>1 DEF TypeOK
  <2>4. \A u \in Trades : promotions'[g][u] \in Nat
    <3>1. promotions' = [promotions EXCEPT ![g] =
                           [promotions[g] EXCEPT ![t] = promotions[g][t] + 1]]
      BY <1>5 DEF Promote
    <3> QED
      BY <1>a, <2>2, <3>1 DEF TypeOK
  <2> QED
    BY <1>0, <1>a, <2>1, <2>2, <2>3, <2>4
<1>6. CASE RemoveHits(g) \/ CycleFails(g)
  BY <1>0, <1>6 DEF RemoveHits, CycleFails, Idle
<1>7. CASE Replay(g)
  <2>1. engine'[g] = [s EXCEPT !.queue = @ \union s.hits, !.replayed = TRUE]
        /\ promotions' = promotions
    BY <1>0, <1>7 DEF Replay
  <2>2. \A t \in s.hits : t \in pending' \/ t \in pending \/ promotions[g][t] > 0
    BY <1>0
  <2>3. \A t \in pending \ pending' : promotions[g][t] > 0
    BY <1>0, <1>7 DEF Replay, Orderly
  <2> QED
    BY <1>0, <2>1, <2>2, <2>3
<1>8. CASE Tick \/ UNCHANGED vars
  BY <1>0, <1>8 DEF Tick, vars
<1>9. ASSUME NEW t \in Trades, NEW k \in Kinds, NEW e \in Times, Add(t, k, e)
      PROVE  Owned
  BY <1>0, <1>9 DEF Add
<1> QED
  BY <1>1, <1>2, <1>3, <1>4, <1>5, <1>6, <1>7, <1>8, <1>9 DEF Next, EngineStep

LEMMA OwnsSafety == Spec => []OwnsPending
BY TypeCorrect, MemorySafety, OwnsInit, OwnsNext, PTL DEF Spec

\* With one engine, a trade that left the set is promoted again only by the
\* replay of the pipeline that promoted and removed it.
THEOREM GoneForGoodTheorem == Spec => GoneForGood
<1>1. TypeOK /\ MemoryInv /\ OwnsPending /\ [Next]_vars => [LeavesGone]_vars
  <2> SUFFICES ASSUME TypeOK, MemoryInv, OwnsPending, Next PROVE LeavesGone
    BY DEF LeavesGone, vars, historyVars
  <2> USE DEF historyVars
  <2>1. ASSUME NEW g \in Engines, NEW t \in engine[g].queue, Promote(g, t)
        PROVE  LeavesGone
    <3>1. t \in Trades
      BY DEF TypeOK, EngineState
    <3>2. \A u \in Trades : u # t => promotions'[g][u] = promotions[g][u]
      <4>1. promotions' = [promotions EXCEPT ![g] =
                             [promotions[g] EXCEPT ![t] = promotions[g][t] + 1]]
        BY <2>1 DEF Promote
      <4> QED
        BY <3>1, <4>1 DEF TypeOK
    <3>3. t \in engine[g].hits
      BY <2>1 DEF MemoryInv, Orderly, Promote
    <3> QED
      BY <3>1, <3>2, <3>3 DEF LeavesGone, OwnsPending
  <2>2. ASSUME promotions' = promotions PROVE LeavesGone
    BY <2>2 DEF LeavesGone
  <2> QED
    BY <2>1, <2>2 DEF Next, Tick, Add, EngineStep, BeginCycle, Purge, Scan,
                      DropCorrupt, RemoveHits, Replay, CycleFails
<1> QED
  BY <1>1, TypeCorrect, MemorySafety, OwnsSafety, PTL DEF Spec, GoneForGood

\* What leaves the set with its reason is a settlement.
LEMMA SettlesTrades ==
  ASSUME TypeOK, TypeOK', UNCHANGED <<clock, kind, expiry, promotions>>,
         pending' \subseteq pending,
         \A t \in pending \ pending' :
           Promoted(t) \/ expiry[t] <= clock \/ kind[t] = "corrupt"
  PROVE  Lifecycle!Settle
<1>1. \A t \in Trades : StatusOf(t) \in Lifecycle!Outcomes \union {"absent", "pending"}
  BY DEF StatusOf, Lifecycle!Outcomes
<1>2. \A t \in Trades : Promoted(t)' <=> Promoted(t)
  BY DEF Promoted
<1>3. Status' = [t \in Trades |-> StatusOf(t)']
  BY DEF Status
<1>4. ASSUME NEW t \in Trades
      PROVE  /\ StatusOf(t)' \in Lifecycle!Outcomes \union {"absent", "pending"}
             /\ \/ StatusOf(t)' = StatusOf(t)
                \/ /\ StatusOf(t) = "pending" /\ StatusOf(t)' \in Lifecycle!Outcomes
                   /\ StatusOf(t)' = "expired" => expiry[t] <= clock
  <2>1. t \in pending => kind[t] # "absent"
    BY DEF TypeOK
  <2>2. CASE t \in pending \ pending'
    BY <1>2, <2>1, <2>2 DEF StatusOf, Lifecycle!Outcomes
  <2>3. CASE ~(t \in pending \ pending')
    <3>1. StatusOf(t)' = StatusOf(t)
      BY <1>2, <2>3 DEF StatusOf
    <3> QED
      BY <1>1, <3>1
  <2> QED
    BY <2>2, <2>3
<1> QED
  BY <1>3, <1>4 DEF Lifecycle!Settle, Status

\* A step that changes neither set nor kinds, and promotes only what is still
\* pending, cannot be seen.
LEMMA StatusUnchanged ==
  ASSUME UNCHANGED <<clock, kind, expiry, pending>>,
         \A t \in Trades : t \in pending \/ (Promoted(t)' <=> Promoted(t))
  PROVE  UNCHANGED Lifecycle!lifecycleVars
<1>1. \A t \in Trades : StatusOf(t)' = StatusOf(t)
  BY DEF StatusOf
<1> QED
  BY <1>1 DEF Lifecycle!lifecycleVars, Status

LEMMA LifecycleInit == Init => Lifecycle!Init
BY DEF Init, Lifecycle!Init, Status, StatusOf

LEMMA LifecycleNext ==
  ASSUME NEW g \in Engines, Engines = {g},
         TypeOK, TypeOK', MemoryInv, OwnsPending, [Next]_vars
  PROVE  [Lifecycle!Next]_(Lifecycle!lifecycleVars)
<1> DEFINE s == engine[g]
<1>0. /\ s \in EngineState /\ Orderly(g)
      /\ \A t \in s.hits : t \in pending \/ promotions[g][t] > 0
  BY DEF TypeOK, MemoryInv, OwnsPending
<1> USE DEF tradeVars, historyVars
<1>1. ASSUME UNCHANGED <<clock, kind, expiry, pending, promotions>>
      PROVE  UNCHANGED Lifecycle!lifecycleVars
  BY <1>1, StatusUnchanged DEF Promoted
<1>2. CASE Tick
  <2>1. Status' = Status
    BY <1>2 DEF Tick, Status, StatusOf, Promoted
  <2>2. clock' = clock + 1 /\ clock' \in Times /\ expiry' = expiry
    BY <1>2 DEF Tick, TypeOK
  <2> QED
    BY <2>1, <2>2 DEF Lifecycle!Next, Lifecycle!Tick
<1>3. ASSUME NEW t \in Trades, NEW k \in Kinds, NEW e \in Times, Add(t, k, e)
      PROVE  Lifecycle!Next
  <2>1. /\ UNCHANGED <<clock, promotions>> /\ kind[t] = "absent"
        /\ kind'[t] # "absent" /\ pending' = pending \union {t}
        /\ expiry' = [expiry EXCEPT ![t] = e]
        /\ \A u \in Trades \ {t} : kind'[u] = kind[u]
    BY <1>3, KindsAssumption DEF Add, TypeOK, AllKinds
  <2>2. StatusOf(t) = "absent" /\ StatusOf(t)' = "pending"
    BY <2>1 DEF StatusOf
  <2>3. \A u \in Trades \ {t} : StatusOf(u)' = StatusOf(u)
    BY <2>1 DEF StatusOf, Promoted
  <2>4. Status' = [Status EXCEPT ![t] = "pending"] /\ Status[t] = "absent"
    BY <2>2, <2>3 DEF Status
  <2> QED
    BY <2>1, <2>4 DEF Lifecycle!Next, Lifecycle!Authorize
<1>4. CASE BeginCycle(g) \/ Scan(g) \/ CycleFails(g) \/ UNCHANGED vars
  BY <1>1, <1>4 DEF BeginCycle, Scan, CycleFails, vars
<1>5. CASE Purge(g)
  <2>1. \A t \in pending \ pending' : expiry[t] <= clock
    <3>1. s.now \in Nat /\ clock \in Nat /\ s.now <= clock
          /\ \A t \in pending : expiry[t] \in Nat
      BY <1>0, Bounds DEF EngineState, Times, Orderly, TypeOK
    <3> QED
      BY <1>5, <3>1 DEF Purge
  <2> QED
    BY <1>5, <2>1, SettlesTrades DEF Purge, Lifecycle!Next
<1>6. ASSUME NEW t \in s.queue, DropCorrupt(g, t) PROVE Lifecycle!Next
  BY <1>6, SettlesTrades DEF DropCorrupt, Lifecycle!Next
<1>7. ASSUME NEW t \in s.queue, Promote(g, t)
      PROVE  UNCHANGED Lifecycle!lifecycleVars
  <2>1. /\ t \in Trades
        /\ t \in pending \/ promotions[g][t] > 0
    BY <1>0, <1>7 DEF EngineState, Orderly, Promote
  <2>2. \A h \in Engines, u \in Trades :
          u # t => promotions'[h][u] = promotions[h][u]
    <3>1. promotions' = [promotions EXCEPT ![g] =
                           [promotions[g] EXCEPT ![t] = promotions[g][t] + 1]]
      BY <1>7 DEF Promote
    <3> QED
      BY <2>1, <3>1 DEF TypeOK
  <2>3. promotions[g][t] > 0 => promotions'[g][t] > 0
    <3>1. promotions' = [promotions EXCEPT ![g] =
                           [promotions[g] EXCEPT ![t] = promotions[g][t] + 1]]
      BY <1>7 DEF Promote
    <3>2. promotions[g][t] \in Nat
      BY <2>1 DEF TypeOK
    <3> QED
      BY <2>1, <3>1, <3>2 DEF TypeOK
  <2> QED
    BY <1>7, <2>1, <2>2, <2>3, StatusUnchanged DEF Promote, Promoted
<1>8. CASE RemoveHits(g)
  <2>1. s.pc = "pipeline" /\ s.queue = {}
    BY <1>8 DEF RemoveHits
  <2>2. \A t \in pending \ pending' : Promoted(t)
    BY <1>0, <1>8, <2>1 DEF RemoveHits, Orderly, Promoted
  <2> QED
    BY <1>8, <2>2, SettlesTrades DEF RemoveHits, Lifecycle!Next
<1>9. CASE Replay(g)
  <2>1. \A t \in pending \ pending' : Promoted(t)
    BY <1>0, <1>9 DEF Replay, Orderly, Promoted
  <2> QED
    BY <1>9, <2>1, SettlesTrades DEF Replay, Lifecycle!Next
<1> QED
  BY <1>2, <1>3, <1>4, <1>5, <1>6, <1>7, <1>8, <1>9 DEF Next, EngineStep

\* One engine implements the lifecycle: every trade is settled once, for good,
\* and never expires before its time.
THEOREM ImplementsLifecycleTheorem ==
  ASSUME NEW g \in Engines, Engines = {g}
  PROVE  Spec => ImplementsLifecycle
<1>1. TypeOK /\ TypeOK' /\ MemoryInv /\ OwnsPending /\ [Next]_vars
      => [Lifecycle!Next]_(Lifecycle!lifecycleVars)
  BY LifecycleNext
<1> QED
  BY <1>1, TypeCorrect, MemorySafety, OwnsSafety, LifecycleInit, PTL
     DEF Spec, ImplementsLifecycle, Lifecycle!Spec
=============================================================================
