------------------------- MODULE SignalLedger_proofs -------------------------
(* Theorems about SignalLedger, for every value of its constants. *)
EXTENDS SignalLedger, FiniteSetTheorems, SequenceTheorems, TLAPS

LEMMA Sizes ==
  /\ TradeTtl \in Nat /\ BootTtl \in Nat /\ CacheTtl \in Nat /\ Grace \in Nat
  /\ Interval \in Nat /\ Hour \in Nat /\ MaxClock \in Nat /\ MaxBoots \in Nat /\ MaxFaults \in Nat
  /\ TradeTtl > 0 /\ BootTtl > 0 /\ CacheTtl > 0 /\ Grace > 0 /\ Interval > 0
  /\ Grace <= Interval /\ IsFiniteSet(Signals)
  /\ None \notin Int /\ None \notin {"authorizing", "authorize", "rejecting", "reject"}
BY LedgerAssumption

-----------------------------------------------------------------------------
(* Counting *)

\* The members of a signal are two.
LEMMA TwoMembers ==
  ASSUME NEW s \in Signals, NEW T, T \subseteq Members
  PROVE  LET U == {m \in T : m[1] = s}
         IN  /\ IsFiniteSet(U)
             /\ Cardinality(U) = (IF <<s, "arbiter">> \in T THEN 1 ELSE 0)
                                 + (IF <<s, "boot">> \in T THEN 1 ELSE 0)
<1> DEFINE U == {m \in T : m[1] = s}
           A == IF <<s, "arbiter">> \in T THEN {<<s, "arbiter">>} ELSE {}
           B == IF <<s, "boot">> \in T THEN {<<s, "boot">>} ELSE {}
<1>1. U = A \cup B
  <2>1. \A m \in U : m = <<s, "arbiter">> \/ m = <<s, "boot">>
    BY DEF Members
  <2> QED
    BY <2>1
<1>2. /\ IsFiniteSet(A) /\ IsFiniteSet(B)
      /\ Cardinality(A) = (IF <<s, "arbiter">> \in T THEN 1 ELSE 0)
      /\ Cardinality(B) = (IF <<s, "boot">> \in T THEN 1 ELSE 0)
  BY FS_EmptySet, FS_Singleton
<1>3. A \cap B = {}
  OBVIOUS
<1> HIDE DEF A, B, U
<1>4. IsFiniteSet(A \cup B) /\ Cardinality(A \cup B) = Cardinality(A) + Cardinality(B) - Cardinality({})
  BY <1>2, <1>3, FS_Union
<1>5. IsFiniteSet(U) /\ Cardinality(U) = Cardinality(A) + Cardinality(B)
  BY <1>1, <1>2, <1>4, FS_EmptySet
<1>6. IsFiniteSet(U) /\ Cardinality(U) = (IF <<s, "arbiter">> \in T THEN 1 ELSE 0)
                                        + (IF <<s, "boot">> \in T THEN 1 ELSE 0)
  BY <1>2, <1>5
<1> QED
  BY <1>6 DEF U

\* Rows of a ledger are finitely many.
LEMMA RowsFinite ==
  ASSUME NEW rows \in Seq(Rows), NEW T, T \subseteq DOMAIN rows
  PROVE  IsFiniteSet(T) /\ Cardinality(T) \in Nat
<1>1. DOMAIN rows = 1..Len(rows) /\ Len(rows) \in Nat
  BY LenProperties
<1>2. IsFiniteSet(1..Len(rows))
  BY <1>1, FS_Interval
<1>3. IsFiniteSet(T)
  BY <1>1, <1>2, FS_Subset
<1> QED
  BY <1>3, FS_CardinalityType

\* What an INSERT does to the ledger.
LEMMA AppendIs ==
  ASSUME NEW row \in Rows, ledger \in Seq(Rows), ledger' = Append(ledger, row)
  PROVE  /\ ledger' \in Seq(Rows) /\ Len(ledger) \in Nat /\ Len(ledger') = Len(ledger) + 1
         /\ DOMAIN ledger = 1..Len(ledger) /\ DOMAIN ledger' = DOMAIN ledger \cup {Len(ledger) + 1}
         /\ Len(ledger) + 1 \notin DOMAIN ledger
         /\ ledger'[Len(ledger) + 1] = row
         /\ \A i \in DOMAIN ledger : ledger'[i] = ledger[i]
<1>1. Len(ledger) \in Nat /\ DOMAIN ledger = 1..Len(ledger)
  BY LenProperties
<1>2. ledger' \in Seq(Rows) /\ Len(ledger') = Len(ledger) + 1
      /\ ledger'[Len(ledger) + 1] = row
  BY <1>1
<1>3. ASSUME NEW i \in DOMAIN ledger PROVE ledger'[i] = ledger[i]
  BY <1>1
<1>4. DOMAIN ledger' = 1..(Len(ledger) + 1)
  BY <1>2, LenProperties
<1> QED
  BY <1>1, <1>2, <1>3, <1>4

Fills(s) == {i \in DOMAIN ledger : ledger[i].signal = s /\ ledger[i].kind = "fill"}

LEMMA FillsAfter ==
  ASSUME NEW row \in Rows, ledger \in Seq(Rows), ledger' = Append(ledger, row),
         NEW s \in Signals
  PROVE  /\ Cardinality(Fills(s)) \in Nat
         /\ Cardinality(Fills(s)') =
              IF row.signal = s /\ row.kind = "fill" THEN Cardinality(Fills(s)) + 1
              ELSE Cardinality(Fills(s))
<1>1. IsFiniteSet(Fills(s)) /\ Cardinality(Fills(s)) \in Nat
  BY RowsFinite DEF Fills
<1>2. CASE row.signal = s /\ row.kind = "fill"
  <2>1. Fills(s)' = Fills(s) \cup {Len(ledger) + 1} /\ Len(ledger) + 1 \notin Fills(s)
    BY <1>2, AppendIs DEF Fills
  <2> QED
    BY <1>1, <1>2, <2>1, FS_AddElement
<1>3. CASE ~(row.signal = s /\ row.kind = "fill")
  <2>1. Fills(s)' = Fills(s)
    BY <1>3, AppendIs DEF Fills
  <2> QED
    BY <1>1, <1>3, <2>1
<1> QED
  BY <1>1, <1>2, <1>3

-----------------------------------------------------------------------------
(* Types *)

Expiry == 0..(MaxClock + TradeTtl + BootTtl)
Overdues == [signal : Signals, expiry : Int]
Scans == [now : Time, todo : SUBSET Overdues, purged : Time]
Decisions == {"authorizing", "authorize", "rejecting", "reject", None}

\* The services' own trades are those of authorized signals.
LedgerType ==
  /\ TypeOK
  /\ scan \in Scans
  /\ \A s \in Signals : pending[<<s, "arbiter">>] /= None => decided[s] = "authorize"

LEMMA MembersAre == \A s \in Signals : <<s, "arbiter">> \in Members /\ <<s, "boot">> \in Members
BY DEF Members

LEMMA AsleepIs == Asleep \in Scans /\ Asleep.todo = {} /\ Asleep.now = 0 /\ Asleep.purged = 0
BY Sizes DEF Asleep, Scans, Time

LEMMA NothingIs ==
  /\ NoPending \in [Members -> Expiry \cup {None}] /\ NoEntries \in [Signals -> Nat]
  /\ \A m \in Members : NoPending[m] = None
  /\ \A s \in Signals : NoEntries[s] = 0
BY DEF NoPending, NoEntries

LEMMA TypeInit == Init => LedgerType
<1> SUFFICES ASSUME Init PROVE LedgerType
  OBVIOUS
<1>1. ledger \in Seq(Rows) /\ Len(ledger) = 0
  BY EmptySeq DEF Init
<1>2. 0 \in Time /\ 0 \in 0..(MaxClock + CacheTtl) /\ 0 \in 0..(MaxClock + Interval)
      /\ 0 \in 0..MaxBoots /\ 0 \in 0..MaxFaults /\ 0 \in 0..Len(ledger)
  BY <1>1, Sizes DEF Time
<1>3. cache \in [rows : 0..Len(ledger), expiry : 0..(MaxClock + CacheTtl)]
  BY <1>2 DEF Init, NoCache
<1>4. pending \in [Members -> Expiry \cup {None}] /\ queue \in [Signals -> Nat]
      /\ lost \in [Signals -> Nat] /\ replayed \in [Signals -> Nat]
  BY NothingIs DEF Init
<1>5. decided \in [Signals -> Decisions]
  BY DEF Init, Decisions
<1>6. scan \in Scans /\ scan.todo = {} /\ scan.now \in Time /\ scan.purged \in Time
  BY <1>2, AsleepIs DEF Init
<1>7. \A s \in Signals : pending[<<s, "arbiter">>] = None
  BY NothingIs, MembersAre DEF Init
<1>8. clock \in Time /\ nextScan \in 0..(MaxClock + Interval) /\ boots \in 0..MaxBoots
      /\ faults \in 0..MaxFaults /\ purgedAt \in Time
  BY <1>2 DEF Init
<1> QED
  BY <1>1, <1>3, <1>4, <1>5, <1>6, <1>7, <1>8 DEF LedgerType, TypeOK, Expiry, Decisions

\* What the steps need of the types.
LEMMA Typed ==
  ASSUME LedgerType
  PROVE  /\ clock \in Nat /\ clock <= MaxClock /\ clock \in Time
         /\ ledger \in Seq(Rows) /\ Len(ledger) \in Nat
         /\ cache \in [rows : 0..Len(ledger), expiry : 0..(MaxClock + CacheTtl)]
         /\ decided \in [Signals -> Decisions]
         /\ pending \in [Members -> Expiry \cup {None}]
         /\ queue \in [Signals -> Nat] /\ lost \in [Signals -> Nat] /\ replayed \in [Signals -> Nat]
         /\ scan \in Scans /\ scan.now \in Time /\ scan.purged \in Time
         /\ nextScan \in 0..(MaxClock + Interval) /\ nextScan \in Nat
         /\ boots \in 0..MaxBoots /\ faults \in 0..MaxFaults /\ boots \in Nat /\ faults \in Nat
         /\ purgedAt \in Time
         /\ clock + Interval \in 0..(MaxClock + Interval)
         /\ clock + TradeTtl \in Expiry /\ clock + BootTtl \in Expiry
         /\ clock + CacheTtl \in 0..(MaxClock + CacheTtl)
         /\ Fault => faults' \in 0..MaxFaults
<1>1. clock \in Nat /\ clock <= MaxClock
  BY Sizes DEF LedgerType, TypeOK, Time
<1>2. ledger \in Seq(Rows) /\ Len(ledger) \in Nat
  BY LenProperties DEF LedgerType, TypeOK
<1>3. /\ clock + Interval \in 0..(MaxClock + Interval)
      /\ clock + TradeTtl \in Expiry /\ clock + BootTtl \in Expiry
      /\ clock + CacheTtl \in 0..(MaxClock + CacheTtl)
  BY <1>1, Sizes DEF Expiry
<1>4. Fault => faults' \in 0..MaxFaults
  BY Sizes DEF LedgerType, TypeOK, Fault
<1> QED
  BY <1>1, <1>2, <1>3, <1>4, Sizes DEF LedgerType, TypeOK, Expiry, Decisions

\* What is overdue is an authorized trade that expired before.
LEMMA OverdueIs ==
  ASSUME LedgerType, NEW t \in Overdue
  PROVE  /\ t \in Overdues /\ decided[t.signal] = "authorize" /\ t.expiry < clock
         /\ t.expiry = pending[<<t.signal, "arbiter">>] /\ t.expiry \in Nat
         /\ clock - 2 * Interval <= t.expiry /\ t.expiry <= clock - Grace
<1>1. PICK s \in Signals : /\ pending[<<s, "arbiter">>] \in Window
                           /\ t = [signal |-> s, expiry |-> pending[<<s, "arbiter">>]]
  BY DEF Overdue
<1>2. pending[<<s, "arbiter">>] \in Expiry \cup {None}
  BY MembersAre, Typed
<1>3. /\ pending[<<s, "arbiter">>] \in Int
      /\ clock - 2 * Interval <= pending[<<s, "arbiter">>]
      /\ pending[<<s, "arbiter">>] <= clock - Grace
  BY <1>1, Typed, Sizes DEF Window
<1>4. pending[<<s, "arbiter">>] /= None /\ pending[<<s, "arbiter">>] \in Nat
  BY <1>2, <1>3, Sizes DEF Expiry
<1>5. decided[s] = "authorize"
  BY <1>4 DEF LedgerType
<1>6. pending[<<s, "arbiter">>] < clock
  <2>1. clock \in Nat
    BY Typed
  <2> QED
    BY <1>3, <1>4, <2>1, Sizes
<1>7. t.signal = s /\ t.expiry = pending[<<s, "arbiter">>] /\ t \in Overdues
  BY <1>1, <1>3 DEF Overdues
<1> QED
  BY <1>3, <1>4, <1>5, <1>6, <1>7

\* A cycle of the engine leaves T in pending_trades, promotes `once', and of
\* that `twice' a second time. It fails when a promotion stays or is repeated.
Cycle(T, once, twice) ==
  /\ T \subseteq Live /\ once \subseteq Live /\ twice \subseteq once
  /\ Keep(T)
  /\ queue' = [s \in Signals |-> queue[s] + Promotions(s, once) + Promotions(s, twice)]
  /\ twice /= {} => T \cap once = {}
  /\ UNCHANGED faults \/ Fault
  /\ twice /= {} \/ T \cap once /= {} => Fault
  /\ purgedAt' = IF pending' = NoPending THEN 0 ELSE clock
  /\ UNCHANGED <<clock, ledger, cache, decided, scan, nextScan, lost, replayed, boots>>

\* A signal has two members, each of which is promoted or not.
LEMMA PromotionsAre ==
  ASSUME NEW s \in Signals, NEW T, T \subseteq Members
  PROVE  Promotions(s, T) = (IF <<s, "arbiter">> \in T THEN 1 ELSE 0)
                            + (IF <<s, "boot">> \in T THEN 1 ELSE 0)
BY TwoMembers DEF Promotions

LEMMA LiveMembers == Live \subseteq Members
BY DEF Live

LEMMA PromotionsTyped ==
  ASSUME NEW s \in Signals, NEW T \in SUBSET Live
  PROVE  Promotions(s, T) \in Nat
<1>1. T \subseteq Members
  BY LiveMembers
<1>2. Promotions(s, T) = (IF <<s, "arbiter">> \in T THEN 1 ELSE 0)
                         + (IF <<s, "boot">> \in T THEN 1 ELSE 0)
  BY <1>1, PromotionsAre
<1> QED
  BY <1>2

LEMMA NoPromotions ==
  ASSUME NEW s \in Signals
  PROVE  Promotions(s, {}) = 0
<1>1. {m \in {} : m[1] = s} = {}
  OBVIOUS
<1> QED
  BY <1>1, FS_EmptySet DEF Promotions

LEMMA CycleIs ==
  ASSUME LedgerType, EngineCycle
  PROVE  \E T, once, twice \in SUBSET Live : Cycle(T, once, twice)
<1>0. /\ purgedAt' = IF pending' = NoPending THEN 0 ELSE clock
      /\ UNCHANGED <<clock, ledger, cache, decided, scan, nextScan, lost, replayed, boots>>
  BY DEF EngineCycle
<1>1. PICK hits \in SUBSET Live : \E sent \in SUBSET hits :
          \/ /\ Keep(Live \ hits)
             /\ queue' = [s \in Signals |-> queue[s] + Promotions(s, hits) + Promotions(s, sent)]
             /\ IF sent = {} THEN UNCHANGED faults ELSE Fault
          \/ /\ Keep(Live)
             /\ queue' = [s \in Signals |-> queue[s] + Promotions(s, sent)]
             /\ Fault
  BY DEF EngineCycle
<1>4. PICK sent \in SUBSET hits :
        \/ /\ Keep(Live \ hits)
           /\ queue' = [s \in Signals |-> queue[s] + Promotions(s, hits) + Promotions(s, sent)]
           /\ IF sent = {} THEN UNCHANGED faults ELSE Fault
        \/ /\ Keep(Live)
           /\ queue' = [s \in Signals |-> queue[s] + Promotions(s, sent)]
           /\ Fault
  BY <1>1
<1>2. CASE /\ Keep(Live \ hits)
           /\ queue' = [s \in Signals |-> queue[s] + Promotions(s, hits) + Promotions(s, sent)]
           /\ IF sent = {} THEN UNCHANGED faults ELSE Fault
  <2>1. Cycle(Live \ hits, hits, sent)
    BY <1>0, <1>2 DEF Cycle
  <2> QED
    BY <2>1
<1>3. CASE /\ Keep(Live)
           /\ queue' = [s \in Signals |-> queue[s] + Promotions(s, sent)]
           /\ Fault
  <2>1. \A s \in Signals : Promotions(s, {}) = 0
    BY NoPromotions
  <2>2. \A s \in Signals : queue[s] + Promotions(s, sent) + Promotions(s, {})
                             = queue[s] + Promotions(s, sent)
    <3>1. \A s \in Signals : queue[s] \in Nat /\ Promotions(s, sent) \in Nat
      <4>1. sent \in SUBSET Live
        OBVIOUS
      <4> QED
        BY <4>1, PromotionsTyped, Typed
    <3> QED
      BY <2>1, <3>1
  <2>3. queue' = [s \in Signals |-> queue[s] + Promotions(s, sent) + Promotions(s, {})]
    BY <1>3, <2>2
  <2>4. Cycle(Live, sent, {})
    BY <1>0, <1>3, <2>3 DEF Cycle
  <2> QED
    BY <2>4
<1> QED
  BY <1>2, <1>3, <1>4

LEMMA TypeNext == LedgerType /\ [Next]_vars => LedgerType'
<1> SUFFICES ASSUME LedgerType, [Next]_vars PROVE LedgerType'
  OBVIOUS
<1>0. /\ \A s \in Signals : pending[<<s, "arbiter">>] /= None => decided[s] = "authorize"
      /\ \A t \in scan.todo : decided[t.signal] = "authorize" /\ t.expiry < scan.now
  BY DEF LedgerType, TypeOK
<1>1. ASSUME clock' \in Time, ledger' \in Seq(Rows),
             cache' \in [rows : 0..Len(ledger'), expiry : 0..(MaxClock + CacheTtl)],
             decided' \in [Signals -> Decisions],
             pending' \in [Members -> Expiry \cup {None}],
             queue' \in [Signals -> Nat], lost' \in [Signals -> Nat], replayed' \in [Signals -> Nat],
             scan' \in Scans,
             \A t \in scan'.todo : decided'[t.signal] = "authorize" /\ t.expiry < scan'.now,
             nextScan' \in 0..(MaxClock + Interval), boots' \in 0..MaxBoots,
             faults' \in 0..MaxFaults, purgedAt' \in Time,
             \A s \in Signals : pending'[<<s, "arbiter">>] /= None => decided'[s] = "authorize"
      PROVE  LedgerType'
  <2>1. scan'.now \in Time /\ scan'.purged \in Time
    BY <1>1 DEF Scans
  <2> QED
    BY <1>1, <2>1 DEF LedgerType, TypeOK, Expiry, Decisions
<1>2. ASSUME NEW row \in Rows, ledger' = Append(ledger, row) \/ UNCHANGED ledger, UNCHANGED cache
      PROVE  ledger' \in Seq(Rows) /\ cache' \in [rows : 0..Len(ledger'), expiry : 0..(MaxClock + CacheTtl)]
  <2>1. ledger' \in Seq(Rows) /\ Len(ledger) \in Nat /\ Len(ledger') \in Nat /\ Len(ledger) <= Len(ledger')
    BY <1>2, AppendIs, Typed
  <2> QED
    BY <1>2, <2>1, Typed
<1>3. CASE Tick
  <2>1. clock' \in Time
    <3>1. clock \in Nat /\ clock < MaxClock /\ clock' = clock + 1
      BY <1>3, Typed DEF Tick
    <3> QED
      BY <3>1, Sizes DEF Time
  <2> QED
    BY <1>0, <1>1, <1>3, <2>1, Typed DEF Tick
<1>4. ASSUME NEW s \in Signals, Evaluate(s) PROVE LedgerType'
  <2>1. PICK d \in {"authorizing", "rejecting"} : decided' = [decided EXCEPT ![s] = d]
    BY <1>4 DEF Evaluate, Decide
  <2>2. decided[s] = None /\ decided' \in [Signals -> Decisions]
    BY <1>4, <2>1, Typed DEF Evaluate, Decisions
  <2>3. \A t \in Overdues : decided[t.signal] = "authorize" => decided'[t.signal] = "authorize"
    BY <2>1, <2>2, Typed, Sizes DEF Overdues
  <2>4. \A r \in Signals : decided[r] = "authorize" => decided'[r] = "authorize"
    BY <2>1, <2>2, Typed, Sizes
  <2>5. cache' \in [rows : 0..Len(ledger), expiry : 0..(MaxClock + CacheTtl)]
    <3>1. Len(ledger) \in 0..Len(ledger) /\ clock + CacheTtl \in 0..(MaxClock + CacheTtl)
      BY Typed
    <3>2. cache' = cache \/ cache' = [rows |-> Len(ledger), expiry |-> clock + CacheTtl]
      BY <1>4 DEF Evaluate
    <3> QED
      BY <3>1, <3>2, Typed
  <2>6. faults' \in 0..MaxFaults
    BY <1>4, Typed DEF Evaluate
  <2>7. scan \in Scans /\ scan.todo \subseteq Overdues
    BY Typed DEF Scans
  <2>8. UNCHANGED <<clock, ledger, pending, queue, scan, nextScan, lost, replayed, boots, purgedAt>>
    BY <1>4 DEF Evaluate
  <2> QED
    BY <1>0, <1>1, <2>2, <2>3, <2>4, <2>5, <2>6, <2>7, <2>8, Typed
<1>5. ASSUME NEW s \in Signals, Authorize(s) PROVE LedgerType'
  <2>1. decided' = [decided EXCEPT ![s] = "authorize"]
        /\ pending' = [pending EXCEPT ![<<s, "arbiter">>] = clock + TradeTtl]
    BY <1>5 DEF Authorize, Enter
  <2>2. decided' \in [Signals -> Decisions] /\ pending' \in [Members -> Expiry \cup {None}]
    BY <2>1, Typed DEF Decisions
  <2>3. \A t \in Overdues : decided[t.signal] = "authorize" => decided'[t.signal] = "authorize"
    BY <2>1, Typed DEF Overdues
  <2>4. \A r \in Signals : pending'[<<r, "arbiter">>] /= None => decided'[r] = "authorize"
    BY <1>0, <2>1, Typed, MembersAre
  <2>5. scan \in Scans /\ scan.todo \subseteq Overdues
    BY Typed DEF Scans
  <2> QED
    BY <1>0, <1>1, <1>5, <2>2, <2>3, <2>4, <2>5, Typed DEF Authorize, Enter
<1>6. ASSUME NEW s \in Signals, Reject(s) PROVE LedgerType'
  <2>1. decided' = [decided EXCEPT ![s] = "reject"] /\ decided[s] = "rejecting"
    BY <1>6 DEF Reject
  <2>2. decided' \in [Signals -> Decisions]
    BY <2>1, Typed DEF Decisions
  <2>3. /\ \A t \in Overdues : decided[t.signal] = "authorize" => decided'[t.signal] = "authorize"
        /\ \A r \in Signals : decided[r] = "authorize" => decided'[r] = "authorize"
    BY <2>1, Typed DEF Overdues
  <2>4. Rejection(s) \in Rows
    BY Typed DEF Rejection, Rows
  <2>5. ledger' \in Seq(Rows) /\ cache' \in [rows : 0..Len(ledger'), expiry : 0..(MaxClock + CacheTtl)]
    BY <1>2, <1>6, <2>4 DEF Reject
  <2>6. faults' \in 0..MaxFaults
    BY <1>6, Typed DEF Reject
  <2>7. scan \in Scans /\ scan.todo \subseteq Overdues
    BY Typed DEF Scans
  <2>8. UNCHANGED <<clock, pending, queue, scan, nextScan, lost, replayed, boots, purgedAt>>
    BY <1>6 DEF Reject
  <2> QED
    BY <1>0, <1>1, <2>2, <2>3, <2>5, <2>6, <2>7, <2>8, Typed
<1>7. ASSUME NEW s \in Signals, Match(s) PROVE LedgerType'
  <2>1. PICK won \in BOOLEAN : ledger' = Append(ledger, Fill(s, won)) \/ UNCHANGED ledger
    BY <1>7 DEF Match
  <2>2. Fill(s, won) \in Rows
    BY Typed DEF Fill, Rows
  <2>3. ledger' \in Seq(Rows) /\ cache' \in [rows : 0..Len(ledger'), expiry : 0..(MaxClock + CacheTtl)]
    BY <1>2, <1>7, <2>1, <2>2 DEF Match
  <2>4. queue' \in [Signals -> Nat] /\ faults' \in 0..MaxFaults
    <3>1. queue \in [Signals -> Nat] /\ faults \in 0..MaxFaults /\ (Fault => faults' \in 0..MaxFaults)
      BY Typed
    <3>2. \/ queue[s] > 0 /\ queue' = [queue EXCEPT ![s] = @ - 1] /\ UNCHANGED faults
          \/ Fault /\ UNCHANGED queue
      BY <1>7 DEF Match
    <3> QED
      BY <3>1, <3>2
  <2>5. UNCHANGED <<clock, cache, decided, pending, scan, nextScan, lost, replayed, boots, purgedAt>>
    BY <1>7 DEF Match
  <2> QED
    BY <1>0, <1>1, <2>3, <2>4, <2>5, Typed
<1>8. CASE EngineCycle
  <2>1. PICK T, once, twice \in SUBSET Live : Cycle(T, once, twice)
    BY <1>8, CycleIs
  <2>2. pending' \in [Members -> Expiry \cup {None}]
    BY <2>1, Typed DEF Cycle, Keep
  <2>3. queue' \in [Signals -> Nat]
    <3>1. \A s \in Signals : queue[s] \in Nat /\ Promotions(s, once) \in Nat /\ Promotions(s, twice) \in Nat
      BY PromotionsTyped, Typed
    <3> QED
      BY <2>1, <3>1 DEF Cycle
  <2>4. \A s \in Signals : pending'[<<s, "arbiter">>] /= None => pending[<<s, "arbiter">>] /= None
    BY <2>1, MembersAre DEF Cycle, Keep
  <2>5. purgedAt' \in Time /\ faults' \in 0..MaxFaults
    BY <2>1, Typed, Sizes DEF Cycle, Time
  <2>6. UNCHANGED <<clock, ledger, cache, decided, scan, nextScan, lost, replayed, boots>>
    BY <2>1 DEF Cycle
  <2> QED
    BY <1>0, <1>1, <2>2, <2>3, <2>4, <2>5, <2>6, Typed
<1>9. CASE Scan
  <2>1. scan' = Asleep \/ scan' = [now |-> clock, todo |-> Overdue, purged |-> purgedAt]
    BY <1>9 DEF Scan
  <2>2. Overdue \subseteq Overdues /\ \A t \in Overdue : decided[t.signal] = "authorize" /\ t.expiry < clock
    BY OverdueIs
  <2>3. scan' \in Scans /\ \A t \in scan'.todo : decided[t.signal] = "authorize" /\ t.expiry < scan'.now
    BY <2>1, <2>2, AsleepIs, Typed DEF Scans
  <2> QED
    BY <1>0, <1>1, <1>9, <2>3, Typed DEF Scan
<1>10. ASSUME NEW t \in scan.todo, Check(t) PROVE LedgerType'
  <2>1. scan \in Scans /\ t \in Overdues /\ t.signal \in Signals
    BY Typed DEF Scans, Overdues
  <2>2. scan' \in Scans /\ scan'.todo \subseteq scan.todo /\ (scan'.todo = {} \/ scan'.now = scan.now)
    BY <1>10, <2>1, AsleepIs DEF Check, Scans
  <2>3. lost' \in [Signals -> Nat]
    <3>1. lost' = lost \/ lost' = [lost EXCEPT ![t.signal] = @ + 1]
      BY <1>10 DEF Check
    <3>2. lost \in [Signals -> Nat]
      BY Typed
    <3> QED
      BY <2>1, <3>1, <3>2
  <2>4. faults' \in 0..MaxFaults
    <3>1. UNCHANGED faults \/ Fault
      BY <1>10 DEF Check
    <3> QED
      BY <3>1, Typed
  <2> QED
    BY <1>0, <1>1, <1>10, <2>2, <2>3, <2>4, Typed DEF Check
<1>11. CASE RestartReconciler
  <2>1. scan' \in Scans /\ scan'.todo = {} /\ nextScan' \in 0..(MaxClock + Interval)
        /\ faults' \in 0..MaxFaults
    <3>1. scan' = Asleep /\ nextScan' = clock /\ Fault
      BY <1>11 DEF RestartReconciler
    <3>2. clock \in 0..(MaxClock + Interval)
      <4>1. clock \in Nat /\ clock <= MaxClock
        BY Typed
      <4> QED
        BY <4>1, Sizes
    <3> QED
      BY <3>1, <3>2, AsleepIs, Typed
  <2> QED
    BY <1>0, <1>1, <1>11, <2>1, Typed DEF RestartReconciler
<1>12. CASE RedisLost
  <2>1. cache' \in [rows : 0..Len(ledger), expiry : 0..(MaxClock + CacheTtl)]
    BY <1>12, Typed, Sizes DEF RedisLost, NoCache
  <2>2. \A s \in Signals : pending'[<<s, "arbiter">>] = None
    BY <1>12, NothingIs, MembersAre DEF RedisLost
  <2>3. faults' \in 0..MaxFaults /\ pending' \in [Members -> Expiry \cup {None}]
        /\ queue' \in [Signals -> Nat] /\ lost' \in [Signals -> Nat] /\ replayed' \in [Signals -> Nat]
    BY <1>12, Typed, NothingIs DEF RedisLost
  <2> QED
    BY <1>0, <1>1, <1>12, <2>1, <2>2, <2>3, Typed DEF RedisLost
<1>13. CASE ColdBoot
  <2>0. PICK rejects \in Newest("reject"), fills \in Newest("fill") :
        /\ \/ UNCHANGED faults
           \/ Fault
        /\ pending' = [m \in Members |->
                         IF m[2] = "boot" /\ \E i \in rejects : ledger[i].signal = m[1]
                         THEN clock + BootTtl ELSE pending[m]]
        /\ replayed' = [s \in Signals |->
                          replayed[s] + Cardinality({i \in fills : ledger[i].signal = s})]
    BY <1>13 DEF ColdBoot
  <2>1. fills \subseteq DOMAIN ledger
    BY DEF Newest, Recent
  <2> DEFINE Again(s) == Cardinality({i \in fills : ledger[i].signal = s})
  <2>2. \A s \in Signals : Again(s) \in Nat
    BY <2>1, RowsFinite, Typed
  <2>3. replayed' \in [Signals -> Nat]
    <3>1. replayed' = [s \in Signals |-> replayed[s] + Again(s)]
      BY <2>0
    <3> HIDE DEF Again
    <3>2. \A s \in Signals : replayed[s] \in Nat
      BY Typed
    <3> QED
      BY <2>2, <3>1, <3>2
  <2>4. pending' \in [Members -> Expiry \cup {None}]
    BY <2>0, Typed
  <2>5. \A s \in Signals : pending'[<<s, "arbiter">>] = pending[<<s, "arbiter">>]
    BY <2>0, MembersAre
  <2>6. faults' \in 0..MaxFaults
    BY <2>0, Typed
  <2>7. boots' \in 0..MaxBoots
    <3>1. boots \in 0..MaxBoots /\ boots < MaxBoots /\ boots' = boots + 1
      BY <1>13, Typed DEF ColdBoot
    <3> QED
      BY <3>1, Sizes
  <2> QED
    BY <1>0, <1>1, <1>13, <2>3, <2>4, <2>5, <2>6, <2>7, Typed DEF ColdBoot
<1>14. CASE UNCHANGED vars
  BY <1>0, <1>1, <1>14, Typed DEF vars
<1> QED
  BY <1>3, <1>4, <1>5, <1>6, <1>7, <1>8, <1>9, <1>10, <1>11, <1>12, <1>13, <1>14 DEF Next

\* What the services' pieces around a ledger hold is well formed, for any
\* number of signals and any times.
THEOREM TypeCorrect == Spec => []TypeOK
<1>1. LedgerType => TypeOK
  BY DEF LedgerType
<1> QED
  BY <1>1, TypeInit, TypeNext, PTL DEF Spec

-----------------------------------------------------------------------------
(* What the reconciler reports *)

\* An engine leaves nothing behind that was dead when it purged.
Purged == purgedAt <= clock /\ \A m \in Members : pending[m] /= None => pending[m] > purgedAt

Outage == \A t \in scan.todo : scan.purged < t.expiry /\ t.expiry <= scan.now - Grace

LEMMA PurgedInit == Init => Purged /\ Outage
<1> SUFFICES ASSUME Init PROVE Purged /\ Outage
  OBVIOUS
<1>1. \A m \in Members : pending[m] = None
  BY NothingIs DEF Init
<1>2. purgedAt = 0 /\ clock = 0
  BY DEF Init
<1>3. scan.todo = {}
  BY AsleepIs DEF Init
<1> QED
  BY <1>1, <1>2, <1>3 DEF Purged, Outage

LEMMA PurgedNext == LedgerType /\ Purged /\ Outage /\ [Next]_vars => Purged' /\ Outage'
<1> SUFFICES ASSUME LedgerType, Purged, Outage, [Next]_vars PROVE Purged' /\ Outage'
  OBVIOUS
<1>0. /\ clock \in Nat /\ purgedAt \in Nat
      /\ \A m \in Members : pending[m] \in Nat \cup {None}
  <2>1. /\ clock \in Nat /\ purgedAt \in Time
        /\ \A m \in Members : pending[m] \in Expiry \cup {None}
    BY Typed
  <2> QED
    BY <2>1, Sizes DEF Time, Expiry
<1>1. CASE Tick
  BY <1>0, <1>1 DEF Tick, Purged, Outage
<1>2. ASSUME NEW s \in Signals, Evaluate(s) PROVE Purged' /\ Outage'
  BY <1>2 DEF Evaluate, Purged, Outage
<1>3. ASSUME NEW s \in Signals, Authorize(s) PROVE Purged' /\ Outage'
  <2>1. pending' = [pending EXCEPT ![<<s, "arbiter">>] = clock + TradeTtl]
        /\ UNCHANGED <<clock, scan, purgedAt>>
    BY <1>3 DEF Authorize, Enter
  <2>2. \A m \in Members : pending'[m] = pending[m] \/ pending'[m] = clock + TradeTtl
    BY <2>1, Typed
  <2>3. clock + TradeTtl > purgedAt
    BY <1>0, Sizes DEF Purged
  <2> QED
    BY <2>1, <2>2, <2>3 DEF Purged, Outage
<1>4. ASSUME NEW s \in Signals, Reject(s) PROVE Purged' /\ Outage'
  BY <1>4 DEF Reject, Purged, Outage
<1>5. ASSUME NEW s \in Signals, Match(s) PROVE Purged' /\ Outage'
  BY <1>5 DEF Match, Purged, Outage
<1>6. CASE EngineCycle
  <2>1. PICK T \in SUBSET Live : Keep(T)
    <3>1. PICK T, once, twice \in SUBSET Live : Cycle(T, once, twice)
      BY <1>6, CycleIs
    <3> QED
      BY <3>1 DEF Cycle
  <2>2. /\ purgedAt' = (IF pending' = NoPending THEN 0 ELSE clock)
        /\ UNCHANGED <<clock, scan>>
    BY <1>6 DEF EngineCycle
  <2>3. ASSUME NEW m \in Members, pending'[m] /= None PROVE pending'[m] > purgedAt'
    <3>1. pending'[m] > clock
      BY <2>1, <2>3 DEF Keep, Live
    <3>2. pending' /= NoPending
      BY <2>3, NothingIs
    <3> QED
      BY <2>2, <3>1, <3>2
  <2>4. purgedAt' <= clock'
    BY <1>0, <2>2
  <2> QED
    BY <2>2, <2>3, <2>4 DEF Purged, Outage
<1>7. CASE Scan
  <2>1. scan' = Asleep \/ scan' = [now |-> clock, todo |-> Overdue, purged |-> purgedAt]
    BY <1>7 DEF Scan
  <2>2. ASSUME NEW t \in Overdue PROVE purgedAt < t.expiry /\ t.expiry <= clock - Grace
    <3>1. t.expiry = pending[<<t.signal, "arbiter">>] /\ t.expiry <= clock - Grace
          /\ t.expiry \in Nat /\ t.signal \in Signals
      BY OverdueIs DEF Overdues
    <3>2. t.expiry /= None
      BY <3>1, Sizes
    <3>3. <<t.signal, "arbiter">> \in Members
      BY <3>1, MembersAre
    <3> QED
      BY <1>0, <3>1, <3>2, <3>3 DEF Purged
  <2>3. Outage'
    BY <2>1, <2>2, AsleepIs DEF Outage
  <2> QED
    BY <1>7, <2>3 DEF Scan, Purged
<1>8. ASSUME NEW t \in scan.todo, Check(t) PROVE Purged' /\ Outage'
  <2>1. \/ scan'.todo = {}
        \/ scan'.todo \subseteq scan.todo /\ scan'.now = scan.now /\ scan'.purged = scan.purged
    BY <1>8, AsleepIs, Typed DEF Check, Scans
  <2> QED
    BY <1>8, <2>1 DEF Check, Purged, Outage
<1>9. CASE RestartReconciler
  <2>1. scan'.todo = {}
    BY <1>9, AsleepIs DEF RestartReconciler
  <2> QED
    BY <1>9, <2>1 DEF RestartReconciler, Purged, Outage
<1>10. CASE RedisLost
  <2>1. \A m \in Members : pending'[m] = None
    BY <1>10, NothingIs DEF RedisLost
  <2> QED
    BY <1>10, <2>1 DEF RedisLost, Purged, Outage
<1>11. CASE ColdBoot
  <2>1. \A m \in Members : pending'[m] = pending[m] \/ pending'[m] = clock + BootTtl
    BY <1>11 DEF ColdBoot
  <2>2. clock + BootTtl > purgedAt
    BY <1>0, Sizes DEF Purged
  <2> QED
    BY <1>11, <2>1, <2>2 DEF ColdBoot, Purged, Outage
<1>12. CASE UNCHANGED vars
  BY <1>12 DEF vars, Purged, Outage
<1> QED
  BY <1>1, <1>2, <1>3, <1>4, <1>5, <1>6, <1>7, <1>8, <1>9, <1>10, <1>11, <1>12 DEF Next

\* The reconciler reports a trade only when no engine purged since it expired,
\* for any times, any number of trades, and whatever is lost or restarted.
THEOREM LostIsEngineOutageTheorem == Spec => LostIsEngineOutage
<1>1. LedgerType /\ Outage /\ [Next]_vars =>
        [\A t \in scan.todo :
           lost'[t.signal] > lost[t.signal] =>
             scan.purged < t.expiry /\ t.expiry <= scan.now - Grace]_vars
  BY DEF Outage
<1> QED
  BY <1>1, TypeInit, TypeNext, PurgedInit, PurgedNext, PTL DEF Spec, LostIsEngineOutage

-----------------------------------------------------------------------------
(* What lets a desk trade again *)

LEMMA RowsTimed ==
  ASSUME LedgerType
  PROVE  /\ DOMAIN ledger = 1..Len(ledger)
         /\ \A i \in DOMAIN ledger : ledger[i] \in Rows /\ ledger[i].ts \in Nat
         /\ cache.rows \in 0..Len(ledger) /\ cache.rows \in Nat /\ cache.expiry \in Nat
<1>1. DOMAIN ledger = 1..Len(ledger) /\ Len(ledger) \in Nat
  BY Typed, LenProperties
<1>2. \A i \in DOMAIN ledger : ledger[i] \in Rows
  BY Typed, ElementOfSeq, <1>1
<1>3. \A i \in DOMAIN ledger : ledger[i].ts \in Nat
  BY <1>2, Sizes DEF Rows, Time
<1>4. cache.rows \in 0..Len(ledger) /\ cache.expiry \in 0..(MaxClock + CacheTtl)
  BY Typed
<1> QED
  BY <1>1, <1>2, <1>3, <1>4, Sizes

\* A locked-out desk rejects each signal, unless the query fails.
LEMMA LockedEvaluate ==
  ASSUME LedgerType, LockedOut, NEW s \in Signals, Evaluate(s)
  PROVE  LockedOut' \/ faults' > faults
<1>1. /\ ledger \in Seq(Rows) /\ Len(ledger) \in Nat /\ faults \in Nat
      /\ cache.rows \in 0..Len(ledger) /\ DOMAIN ledger = 1..Len(ledger)
      /\ decided \in [Signals -> Decisions]
  BY RowsTimed, Typed
<1>2. Len(ledger) > 0
  BY <1>1, EmptySeq DEF LockedOut
<1>3. ASSUME NEW n \in 1..Len(ledger), NEW rows, rows = First(n) \/ (n = Len(ledger) /\ rows = ledger)
      PROVE  ~MayAuthorize(rows)
  <2>1. Len(rows) = n /\ DOMAIN rows = 1..n /\ \A i \in 1..n : rows[i] = ledger[i]
    <3>1. CASE rows = First(n)
      <4>1. First(n) = [i \in 1..n |-> ledger[i]]
        BY <1>1 DEF First
      <4> QED
        BY <1>1, <3>1, <4>1
    <3>2. CASE n = Len(ledger) /\ rows = ledger
      BY <1>1, <3>2
    <3> QED
      BY <1>3, <3>1, <3>2
  <2>2. {i \in DOMAIN rows : IsWin(rows[i])} = {}
    BY <1>1, <2>1 DEF LockedOut
  <2>3. Wins(rows) = 0 /\ Total(rows) = n
    BY <2>1, <2>2, FS_EmptySet DEF Wins, Total
  <2> QED
    BY <2>3 DEF MayAuthorize
<1>4. ~MayAuthorize(ledger)
  <2>1. Len(ledger) \in 1..Len(ledger)
    BY <1>1, <1>2
  <2> QED
    BY <1>3, <2>1
<1>5. Cached => ~MayAuthorize(First(cache.rows))
  <2>1. SUFFICES ASSUME Cached PROVE ~MayAuthorize(First(cache.rows))
    OBVIOUS
  <2>2. cache.rows \in 1..Len(ledger)
    <3>1. cache.rows > 0
      BY <2>1 DEF Cached
    <3> QED
      BY <1>1, <3>1
  <2> QED
    BY <1>3, <2>2
<1>6. CASE decided' = [decided EXCEPT ![s] = "rejecting"]
  <2>1. \A r \in Signals : decided'[r] /= "authorizing"
    BY <1>1, <1>6 DEF LockedOut
  <2>2. UNCHANGED <<ledger, queue, pending>>
    BY DEF Evaluate
  <2> QED
    BY <2>1, <2>2 DEF LockedOut
<1>7. CASE Fault
  BY <1>1, <1>7 DEF Fault
<1> QED
  BY <1>4, <1>5, <1>6, <1>7 DEF Evaluate, Decide

\* A rejection is a row without a win.
LEMMA LockedReject ==
  ASSUME LedgerType, LockedOut, NEW s \in Signals, Reject(s)
  PROVE  LockedOut'
<1>1. decided' = [decided EXCEPT ![s] = "reject"] /\ UNCHANGED <<queue, pending>>
  BY DEF Reject
<1>2. \A r \in Signals : decided'[r] /= "authorizing"
  BY <1>1, Typed DEF LockedOut
<1>3. CASE UNCHANGED ledger
  BY <1>1, <1>2, <1>3 DEF LockedOut
<1>4. CASE ledger' = Append(ledger, Rejection(s))
  <2>1. Rejection(s) \in Rows /\ ~IsWin(Rejection(s))
    BY Typed DEF Rejection, Rows, IsWin
  <2>2. /\ DOMAIN ledger' = DOMAIN ledger \cup {Len(ledger) + 1}
        /\ ledger'[Len(ledger) + 1] = Rejection(s)
        /\ \A i \in DOMAIN ledger : ledger'[i] = ledger[i]
        /\ ledger' \in Seq(Rows)
    BY <1>4, <2>1, AppendIs, Typed
  <2>3. ledger' /= <<>>
    BY <2>2
  <2>4. \A i \in DOMAIN ledger' : ~IsWin(ledger'[i])
    BY <2>1, <2>2 DEF LockedOut
  <2> QED
    BY <1>1, <1>2, <2>3, <2>4 DEF LockedOut
<1> QED
  BY <1>3, <1>4 DEF Reject

\* A desk with rows, no win among them and nothing under way stays locked
\* out, for any number of rows and signals and any times, unless a call fails
\* or there is a cold boot.
THEOREM LockoutLastsTheorem == Spec => LockoutLasts
<1>1. ASSUME LedgerType, [Next]_vars, LockedOut
      PROVE  LockedOut' \/ faults' > faults \/ boots' > boots
  <2>1. UNCHANGED <<ledger, decided, pending, queue>> => LockedOut'
    BY <1>1 DEF LockedOut, IsWin
  <2>2. ASSUME NEW s \in Signals, Authorize(s) PROVE FALSE
    BY <1>1, <2>2 DEF Authorize, Enter, LockedOut
  <2>3. ASSUME NEW s \in Signals, Match(s) PROVE FALSE
    BY <1>1, <2>3 DEF Match, LockedOut
  <2>4. CASE EngineCycle
    <3>1. PICK T, once, twice \in SUBSET Live : Cycle(T, once, twice)
      BY <1>1, <2>4, CycleIs
    <3>2. Live = {}
      BY <1>1, NothingIs DEF Live, LockedOut
    <3>3. pending' = NoPending
      BY <3>1, <3>2 DEF Cycle, Keep, NoPending
    <3>4. \A s \in Signals : queue'[s] = 0
      <4>1. once = {} /\ twice = {}
        BY <3>2
      <4>2. \A s \in Signals : Promotions(s, {}) = 0
        BY NoPromotions
      <4>3. \A s \in Signals : queue[s] = 0
        BY <1>1 DEF LockedOut
      <4> QED
        BY <3>1, <4>1, <4>2, <4>3 DEF Cycle
    <3>5. UNCHANGED <<ledger, decided>>
      BY <3>1 DEF Cycle
    <3> QED
      BY <1>1, <3>3, <3>4, <3>5 DEF LockedOut
  <2>5. CASE RedisLost
    BY <1>1, <2>5, Typed DEF RedisLost, Fault
  <2>6. CASE ColdBoot
    BY <1>1, <2>6, Typed DEF ColdBoot
  <2> QED
    BY <1>1, <2>1, <2>2, <2>3, <2>4, <2>5, <2>6, LockedEvaluate, LockedReject
       DEF Next, Tick, Scan, Check, RestartReconciler, vars
<1>2. LedgerType /\ [Next]_vars =>
        [LockedOut => LockedOut' \/ faults' > faults \/ boots' > boots]_vars
  BY <1>1
<1> QED
  BY <1>2, TypeInit, TypeNext, PTL DEF Spec, LockoutLasts

-----------------------------------------------------------------------------
(* What the repairs may harm *)

Waits(m) == IF pending[m] /= None THEN 1 ELSE 0

\* Promotions that a signal still has ahead of it, and fills it has.
Weight(s) == Cardinality(Fills(s)) + queue[s] + Waits(<<s, "arbiter">>) + Waits(<<s, "boot">>)

LimitOf(d, b, f) == IF d = "authorize" THEN 1 + f
                    ELSE IF d = "reject" /\ b > 0 THEN b + f
                    ELSE 0

Limit(s) == LimitOf(decided[s], boots, faults)

LEMMA LimitIs ==
  ASSUME NEW d, NEW b \in Nat, NEW f \in Nat
  PROVE  /\ LimitOf(d, b, f) \in Nat
         /\ d = "authorize" => LimitOf(d, b, f) = 1 + f
         /\ d = "reject" => LimitOf(d, b, f) = (IF b = 0 THEN 0 ELSE b + f)
         /\ d /= "authorize" /\ d /= "reject" => LimitOf(d, b, f) = 0
<1>1. CASE d = "authorize"
  BY <1>1 DEF LimitOf
<1>2. CASE d = "reject" /\ b > 0
  <2>1. LimitOf(d, b, f) = b + f
    BY <1>2 DEF LimitOf
  <2> QED
    BY <1>2, <2>1
<1>3. CASE d /= "authorize" /\ ~(d = "reject" /\ b > 0)
  <2>1. LimitOf(d, b, f) = 0
    BY <1>3 DEF LimitOf
  <2>2. d = "reject" => b = 0
    BY <1>3
  <2> QED
    BY <1>3, <2>1, <2>2
<1> QED
  BY <1>1, <1>2, <1>3

LEMMA LimitRises ==
  ASSUME NEW d, NEW b \in Nat, NEW f \in Nat, NEW g \in Nat, f <= g
  PROVE  /\ LimitOf(d, b, f) <= LimitOf(d, b, g)
         /\ f < g /\ LimitOf(d, b, f) > 0 => LimitOf(d, b, f) + 1 <= LimitOf(d, b, g)
         /\ LimitOf("reject", b, f) + 1 <= LimitOf("reject", b + 1, g)
<1>1. /\ LimitOf(d, b, f) \in Nat /\ LimitOf(d, b, g) \in Nat
      /\ d = "authorize" => LimitOf(d, b, f) = 1 + f /\ LimitOf(d, b, g) = 1 + g
      /\ d = "reject" => /\ LimitOf(d, b, f) = (IF b = 0 THEN 0 ELSE b + f)
                         /\ LimitOf(d, b, g) = (IF b = 0 THEN 0 ELSE b + g)
      /\ d /= "authorize" /\ d /= "reject" => LimitOf(d, b, f) = 0 /\ LimitOf(d, b, g) = 0
  BY LimitIs
<1>2. /\ LimitOf("reject", b, f) = (IF b = 0 THEN 0 ELSE b + f)
      /\ LimitOf("reject", b + 1, g) = (b + 1) + g
  <2>1. b + 1 \in Nat /\ b + 1 /= 0
    OBVIOUS
  <2> QED
    BY <2>1, LimitIs
<1>3. LimitOf("reject", b, f) + 1 <= LimitOf("reject", b + 1, g)
  BY <1>2
<1>4. CASE d = "authorize"
  BY <1>1, <1>3, <1>4
<1>5. CASE d = "reject"
  BY <1>1, <1>3, <1>5
<1>6. CASE d /= "authorize" /\ d /= "reject"
  BY <1>1, <1>3, <1>6
<1> QED
  BY <1>4, <1>5, <1>6

\* One way to a fill for an authorized signal, one for each cold boot of a
\* rejected one, and one more for each call that failed.
Revived ==
  /\ \A i \in DOMAIN ledger : ledger[i].kind = "reject" => decided[ledger[i].signal] = "reject"
  /\ ReconstructsOnlyRejected
  /\ \A s \in Signals : Weight(s) <= Limit(s)

Listed(s) == IF \E t \in scan.todo : t.signal = s THEN 1 ELSE 0

\* How often a pass that begins at n or later, Interval apart, finds a trade
\* that expired at e.
Passes(n, e) == IF n > e + 2 * Interval THEN 0 ELSE IF n > e + Interval THEN 1 ELSE 2

Ahead(s) == IF pending[<<s, "arbiter">>] = None THEN 0 ELSE Passes(nextScan, pending[<<s, "arbiter">>])

\* Reports that were made of a trade, that this pass may make and that
\* passes to come may make.
Reported ==
  /\ nextScan <= clock + Interval
  /\ \A t, u \in scan.todo : t.signal = u.signal => t = u
  /\ \A s \in Signals : decided[s] /= "authorize" => lost[s] = 0
  /\ \A s \in Signals : lost[s] + Listed(s) + Ahead(s) <= 2 + faults

LEMMA WeightIs ==
  ASSUME LedgerType, NEW s \in Signals
  PROVE  /\ Cardinality(Fills(s)) \in Nat /\ queue[s] \in Nat
         /\ Waits(<<s, "arbiter">>) \in {0, 1} /\ Waits(<<s, "boot">>) \in {0, 1}
         /\ Weight(s) \in Nat /\ Limit(s) \in Nat
<1>1. Cardinality(Fills(s)) \in Nat
  BY RowsFinite, Typed DEF Fills
<1>2. queue[s] \in Nat /\ boots \in Nat /\ faults \in Nat
  BY Typed
<1> QED
  BY <1>1, <1>2, LimitIs DEF Waits, Weight, Limit

LEMMA WeightNext ==
  ASSUME LedgerType', NEW s \in Signals
  PROVE  /\ queue'[s] \in Nat /\ Limit(s)' \in Nat
         /\ Waits(<<s, "arbiter">>)' \in {0, 1} /\ Waits(<<s, "boot">>)' \in {0, 1}
<1>1. queue' \in [Signals -> Nat] /\ boots' \in 0..MaxBoots /\ faults' \in 0..MaxFaults
  BY DEF LedgerType, TypeOK
<1>2. queue'[s] \in Nat /\ boots' \in Nat /\ faults' \in Nat
  BY <1>1, Sizes
<1> QED
  BY <1>2, LimitIs DEF Limit, Waits

LEMMA RevivedInit == Init => Revived
<1> SUFFICES ASSUME Init PROVE Revived
  OBVIOUS
<1>1. DOMAIN ledger = {}
  BY DEF Init
<1>2. \A m \in Members : pending[m] = None
  BY NothingIs DEF Init
<1>3. \A s \in Signals : Fills(s) = {} /\ queue[s] = 0
  BY <1>1, NothingIs DEF Fills, Init
<1>4. ASSUME NEW s \in Signals PROVE Weight(s) = 0 /\ Limit(s) = 0
  <2>1. Waits(<<s, "arbiter">>) = 0 /\ Waits(<<s, "boot">>) = 0
    BY <1>2, MembersAre DEF Waits
  <2>2. Cardinality(Fills(s)) = 0
    BY <1>3, FS_EmptySet
  <2>3. Limit(s) = 0
    BY Sizes, LimitIs DEF Limit, Init
  <2> QED
    BY <1>3, <2>1, <2>2, <2>3 DEF Weight
<1>5. ReconstructsOnlyRejected
  BY <1>2, MembersAre DEF ReconstructsOnlyRejected
<1>6. \A s \in Signals : Weight(s) <= Limit(s)
  BY <1>4
<1> QED
  BY <1>1, <1>5, <1>6 DEF Revived

\* Where nothing is inserted: weights that do not grow, limits that do not
\* shrink and rejections that stay keep the bound.
LEMMA RevivedKept ==
  ASSUME LedgerType, LedgerType', Revived, UNCHANGED ledger,
         \A s \in Signals : decided[s] = "reject" => decided'[s] = "reject",
         \A s \in Signals : /\ queue'[s] + Waits(<<s, "arbiter">>)' + Waits(<<s, "boot">>)' - Limit(s)'
                                 <= queue[s] + Waits(<<s, "arbiter">>) + Waits(<<s, "boot">>) - Limit(s)
                            /\ pending'[<<s, "boot">>] /= None =>
                                 pending[<<s, "boot">>] /= None \/ decided'[s] = "reject"
  PROVE  Revived'
<1>1. \A i \in DOMAIN ledger : ledger[i].signal \in Signals
  BY RowsTimed DEF Rows
<1>2. \A s \in Signals : Fills(s)' = Fills(s)
  BY DEF Fills
<1>3. ASSUME NEW s \in Signals PROVE Weight(s)' <= Limit(s)'
  <2>1. Weight(s) <= Limit(s)
    BY DEF Revived
  <2>2. /\ Weight(s)' = Cardinality(Fills(s)) + queue'[s] + Waits(<<s, "arbiter">>)' + Waits(<<s, "boot">>)'
        /\ Weight(s) = Cardinality(Fills(s)) + queue[s] + Waits(<<s, "arbiter">>) + Waits(<<s, "boot">>)
    BY <1>2 DEF Weight
  <2> QED
    BY <2>1, <2>2, WeightIs, WeightNext
<1>4. ReconstructsOnlyRejected'
  BY DEF Revived, ReconstructsOnlyRejected
<1>5. \A i \in DOMAIN ledger' : ledger'[i].kind = "reject" => decided'[ledger'[i].signal] = "reject"
  BY <1>1 DEF Revived
<1> QED
  BY <1>3, <1>4, <1>5 DEF Revived

\* A limit grows with the faults, for a signal that has a way to a fill.
LEMMA LimitGrows ==
  ASSUME LedgerType, LedgerType', NEW s \in Signals, UNCHANGED <<decided, boots>>, faults' >= faults
  PROVE  /\ Limit(s)' >= Limit(s)
         /\ faults' > faults /\ Limit(s) > 0 => Limit(s)' >= Limit(s) + 1
<1>1. boots \in Nat /\ faults \in Nat /\ faults' \in Nat /\ boots' = boots
  <2>1. faults' \in 0..MaxFaults
    BY DEF LedgerType, TypeOK
  <2> QED
    BY <2>1, Typed, Sizes
<1>2. decided'[s] = decided[s] /\ faults <= faults'
  BY <1>1
<1>3. /\ LimitOf(decided[s], boots, faults) <= LimitOf(decided[s], boots, faults')
      /\ faults < faults' /\ LimitOf(decided[s], boots, faults) > 0 =>
           LimitOf(decided[s], boots, faults) + 1 <= LimitOf(decided[s], boots, faults')
      /\ LimitOf(decided[s], boots, faults) \in Nat /\ LimitOf(decided[s], boots, faults') \in Nat
  BY <1>1, <1>2, LimitRises, LimitIs
<1>4. Limit(s) = LimitOf(decided[s], boots, faults) /\ Limit(s)' = LimitOf(decided[s], boots, faults')
  BY <1>1, <1>2 DEF Limit
<1> QED
  BY <1>1, <1>3, <1>4

\* A fill takes a promotion off the matcher's queue, or costs a fault.
LEMMA RevivedMatch ==
  ASSUME LedgerType, LedgerType', Revived, NEW s \in Signals, Match(s)
  PROVE  Revived'
<1>1. /\ queue[s] > 0 /\ UNCHANGED <<decided, pending, boots>>
      /\ \/ queue' = [queue EXCEPT ![s] = @ - 1] /\ UNCHANGED faults
         \/ faults' = faults + 1 /\ UNCHANGED queue
  BY DEF Match, Fault
<1>2. \A r \in Signals : /\ Waits(<<r, "arbiter">>)' = Waits(<<r, "arbiter">>)
                         /\ Waits(<<r, "boot">>)' = Waits(<<r, "boot">>)
  BY <1>1 DEF Waits
<1>3. ASSUME NEW r \in Signals
      PROVE  /\ queue'[r] - Limit(r)' <= queue[r] - Limit(r)
             /\ r = s => queue'[r] + 1 - Limit(r)' <= queue[r] - Limit(r)
  <2>1. faults \in Nat /\ queue[r] \in Nat /\ Limit(r) \in Nat /\ Limit(r)' \in Nat
    BY Typed, WeightIs, WeightNext
  <2>2. faults' >= faults
    BY <1>1, <2>1
  <2>3. Limit(r)' >= Limit(r) /\ (faults' > faults /\ Limit(r) > 0 => Limit(r)' >= Limit(r) + 1)
    BY <1>1, <2>2, LimitGrows
  <2>4. r = s => Limit(r) > 0
    <3>1. Weight(r) <= Limit(r)
      BY DEF Revived
    <3> QED
      BY <1>1, <3>1, WeightIs DEF Weight
  <2>5. CASE queue' = [queue EXCEPT ![s] = @ - 1]
    <3>1. queue'[r] = IF r = s THEN queue[r] - 1 ELSE queue[r]
      BY <2>5, Typed
    <3> QED
      BY <2>1, <2>3, <3>1
  <2>6. CASE faults' = faults + 1 /\ UNCHANGED queue
    <3>1. queue'[r] = queue[r] /\ faults' > faults
      BY <2>1, <2>6
    <3> HIDE DEF Limit
    <3> QED
      BY <2>1, <2>3, <2>4, <3>1
  <2> QED
    BY <1>1, <2>5, <2>6
<1>4. CASE UNCHANGED ledger
  <2>1. ASSUME NEW r \in Signals
        PROVE  queue'[r] + Waits(<<r, "arbiter">>)' + Waits(<<r, "boot">>)' - Limit(r)'
                 <= queue[r] + Waits(<<r, "arbiter">>) + Waits(<<r, "boot">>) - Limit(r)
    BY <1>2, <1>3, WeightIs, WeightNext
  <2> QED
    BY <1>1, <1>4, <2>1, RevivedKept
<1>5. ASSUME NEW won \in BOOLEAN, ledger' = Append(ledger, Fill(s, won)) PROVE Revived'
  <2>1. Fill(s, won) \in Rows /\ Fill(s, won).signal = s /\ Fill(s, won).kind = "fill"
    BY Typed DEF Fill, Rows
  <2>2. /\ DOMAIN ledger' = DOMAIN ledger \cup {Len(ledger) + 1}
        /\ ledger'[Len(ledger) + 1] = Fill(s, won)
        /\ \A i \in DOMAIN ledger : ledger'[i] = ledger[i]
    BY <1>5, <2>1, AppendIs, Typed
  <2>3. ASSUME NEW r \in Signals PROVE Weight(r)' <= Limit(r)'
    <3>1. Cardinality(Fills(r)) \in Nat
          /\ Cardinality(Fills(r)') = IF r = s THEN Cardinality(Fills(r)) + 1 ELSE Cardinality(Fills(r))
      BY <1>5, <2>1, FillsAfter, Typed
    <3>2. /\ queue[r] \in Nat /\ Waits(<<r, "arbiter">>) \in {0, 1} /\ Waits(<<r, "boot">>) \in {0, 1}
          /\ queue'[r] \in Nat /\ Limit(r) \in Nat /\ Limit(r)' \in Nat
      BY WeightIs, WeightNext
    <3>3. Weight(r)' = Cardinality(Fills(r)') + queue'[r] + Waits(<<r, "arbiter">>) + Waits(<<r, "boot">>)
      BY <1>2 DEF Weight
    <3>4. Weight(r) = Cardinality(Fills(r)) + queue[r] + Waits(<<r, "arbiter">>) + Waits(<<r, "boot">>)
      BY DEF Weight
    <3>5. Weight(r) <= Limit(r)
      BY DEF Revived
    <3>6. /\ queue'[r] - Limit(r)' <= queue[r] - Limit(r)
          /\ r = s => queue'[r] + 1 - Limit(r)' <= queue[r] - Limit(r)
      BY <1>3
    <3> HIDE DEF Weight, Limit, Waits, Fills
    <3> QED
      BY <3>1, <3>2, <3>3, <3>4, <3>5, <3>6
  <2>4. \A i \in DOMAIN ledger' : ledger'[i].kind = "reject" => decided'[ledger'[i].signal] = "reject"
    BY <1>1, <2>1, <2>2 DEF Revived
  <2>5. ReconstructsOnlyRejected'
    BY <1>1 DEF Revived, ReconstructsOnlyRejected
  <2> QED
    BY <2>3, <2>4, <2>5 DEF Revived
<1> QED
  BY <1>4, <1>5 DEF Match

LEMMA RevivedReject ==
  ASSUME LedgerType, LedgerType', Revived, NEW s \in Signals, Reject(s)
  PROVE  Revived'
<1>1. /\ decided[s] = "rejecting" /\ decided' = [decided EXCEPT ![s] = "reject"]
      /\ UNCHANGED <<queue, pending, boots>>
  BY DEF Reject
<1>2. \A r \in Signals : decided'[r] = IF r = s THEN "reject" ELSE decided[r]
  BY <1>1, Typed
<1>3. ASSUME NEW r \in Signals
      PROVE  /\ Limit(r) <= Limit(r)'
             /\ Waits(<<r, "arbiter">>)' = Waits(<<r, "arbiter">>)
             /\ Waits(<<r, "boot">>)' = Waits(<<r, "boot">>)
  <2>1. boots \in Nat /\ boots' = boots /\ faults \in Nat /\ faults' \in Nat /\ faults <= faults'
    BY <1>1, Typed DEF Reject, Fault
  <2>2. Limit(r) <= Limit(r)'
    <3>1. CASE r = s
      <4>1. Limit(r) = 0 /\ Limit(r)' \in Nat
        BY <1>1, <2>1, <3>1, LimitIs, WeightNext DEF Limit
      <4> QED
        BY <4>1
    <3>2. CASE r /= s
      <4>1. decided'[r] = decided[r]
        BY <1>2, <3>2
      <4>2. LimitOf(decided[r], boots, faults) <= LimitOf(decided[r], boots, faults')
        BY <2>1, LimitRises
      <4> QED
        BY <1>1, <4>1, <4>2 DEF Limit
    <3> QED
      BY <3>1, <3>2
  <2> QED
    BY <1>1, <2>2 DEF Waits
<1>4. CASE UNCHANGED ledger
  <2>1. ASSUME NEW r \in Signals
        PROVE  queue'[r] + Waits(<<r, "arbiter">>)' + Waits(<<r, "boot">>)' - Limit(r)'
                 <= queue[r] + Waits(<<r, "arbiter">>) + Waits(<<r, "boot">>) - Limit(r)
    BY <1>1, <1>3, WeightIs, WeightNext
  <2> QED
    BY <1>1, <1>2, <1>4, <2>1, RevivedKept
<1>5. CASE ledger' = Append(ledger, Rejection(s))
  <2>1. Rejection(s) \in Rows /\ Rejection(s).signal = s /\ Rejection(s).kind = "reject"
    BY Typed DEF Rejection, Rows
  <2>2. /\ DOMAIN ledger' = DOMAIN ledger \cup {Len(ledger) + 1}
        /\ ledger'[Len(ledger) + 1] = Rejection(s)
        /\ \A i \in DOMAIN ledger : ledger'[i] = ledger[i]
    BY <1>5, <2>1, AppendIs, Typed
  <2>3. ASSUME NEW r \in Signals PROVE Weight(r)' = Weight(r)
    <3>1. Cardinality(Fills(r)') = Cardinality(Fills(r))
      BY <1>5, <2>1, FillsAfter, Typed
    <3> QED
      BY <1>1, <1>3, <3>1 DEF Weight
  <2>4. \A r \in Signals : Weight(r)' <= Limit(r)'
    <3>1. \A r \in Signals : Weight(r) <= Limit(r)
      BY DEF Revived
    <3>2. \A r \in Signals : /\ Weight(r) \in Nat /\ Limit(r) \in Nat /\ Limit(r)' \in Nat
                             /\ Weight(r)' = Weight(r) /\ Limit(r) <= Limit(r)'
      BY <1>3, <2>3, WeightIs, WeightNext
    <3> HIDE DEF Weight, Limit
    <3> QED
      BY <3>1, <3>2
  <2>5. \A i \in DOMAIN ledger' : ledger'[i].kind = "reject" => decided'[ledger'[i].signal] = "reject"
    <3>1. \A i \in DOMAIN ledger : ledger[i].signal \in Signals
      BY RowsTimed DEF Rows
    <3> QED
      BY <1>2, <2>1, <2>2, <3>1 DEF Revived
  <2>6. ReconstructsOnlyRejected'
    BY <1>1, <1>2 DEF Revived, ReconstructsOnlyRejected
  <2> QED
    BY <2>4, <2>5, <2>6 DEF Revived
<1> QED
  BY <1>4, <1>5 DEF Reject

\* What crosses moves from pending_trades to the matcher's queue. A cycle
\* that fails promotes a member once more, and one member for a signal: an
\* authorized one has that of the arbiter, a rejected one that of a boot.
LEMMA RevivedCycle ==
  ASSUME LedgerType, LedgerType', Revived, EngineCycle
  PROVE  Revived'
<1>0. PICK T, once, twice \in SUBSET Live : Cycle(T, once, twice)
  BY CycleIs
<1>1. UNCHANGED <<ledger, decided, boots>> /\ (UNCHANGED faults \/ faults' = faults + 1)
  BY <1>0 DEF Cycle, Fault
<1>2. T \subseteq Members /\ once \subseteq Members /\ twice \subseteq Members
  BY <1>0, LiveMembers
<1>3. ASSUME NEW s \in Signals
      PROVE  queue'[s] + Waits(<<s, "arbiter">>)' + Waits(<<s, "boot">>)' - Limit(s)'
               <= queue[s] + Waits(<<s, "arbiter">>) + Waits(<<s, "boot">>) - Limit(s)
  <2> DEFINE a == <<s, "arbiter">>
             b == <<s, "boot">>
             In(m, U) == IF m \in U THEN 1 ELSE 0
  <2>1. queue'[s] = queue[s] + In(a, once) + In(b, once) + In(a, twice) + In(b, twice)
    <3>1. Promotions(s, once) = In(a, once) + In(b, once)
          /\ Promotions(s, twice) = In(a, twice) + In(b, twice)
      BY <1>2, PromotionsAre
    <3>2. queue'[s] = queue[s] + Promotions(s, once) + Promotions(s, twice)
      BY <1>0 DEF Cycle
    <3>3. queue[s] \in Nat
      BY Typed
    <3> QED
      BY <3>1, <3>2, <3>3
  <2>2. ASSUME NEW m \in {a, b}
        PROVE  /\ Waits(m)' = In(m, T)
               /\ In(m, T) <= Waits(m) /\ In(m, once) <= Waits(m) /\ In(m, twice) <= In(m, once)
    <3>1. m \in Members
      BY <2>2, MembersAre
    <3>2. Waits(m)' = In(m, T)
      <4>1. pending'[m] = IF m \in T THEN pending[m] ELSE None
        BY <1>0, <3>1 DEF Cycle, Keep
      <4>2. m \in T => pending[m] /= None
        BY <1>0 DEF Live
      <4> QED
        BY <4>1, <4>2 DEF Waits
    <3>3. \A x \in Live : pending[x] /= None
      BY DEF Live
    <3>4. twice \subseteq once
      BY <1>0 DEF Cycle
    <3> QED
      BY <1>0, <3>2, <3>3, <3>4 DEF Waits
  <2>3. Waits(a) = 0 \/ Waits(b) = 0
    <3>1. pending[a] /= None => decided[s] = "authorize"
      BY DEF LedgerType
    <3>2. pending[b] /= None => decided[s] = "reject"
      BY DEF Revived, ReconstructsOnlyRejected
    <3> QED
      BY <3>1, <3>2 DEF Waits
  <2>4. faults' = faults => \A m \in {a, b} : In(m, twice) = 0 /\ In(m, T) + In(m, once) <= 1
    <3>1. ~Fault => twice = {} /\ T \cap once = {}
      BY <1>0 DEF Cycle
    <3>2. faults \in Nat
      BY Typed
    <3>3. faults' = faults => ~Fault
      BY <3>2 DEF Fault
    <3> QED
      BY <3>1, <3>3
  <2>5. \A m \in {a, b} : In(m, twice) = 0 \/ In(m, T) = 0 \/ In(m, once) = 0
    <3>1. twice /= {} => T \cap once = {}
      BY <1>0 DEF Cycle
    <3> QED
      BY <3>1
  <2>6. Limit(s)' >= Limit(s) /\ (faults' > faults /\ Limit(s) > 0 => Limit(s)' >= Limit(s) + 1)
    <3>1. faults' >= faults
      BY <1>1, Typed
    <3> QED
      BY <1>1, <3>1, LimitGrows
  <2>7. /\ Waits(a) \in {0, 1} /\ Waits(b) \in {0, 1} /\ queue[s] \in Nat /\ faults \in Nat
        /\ Limit(s) \in Nat /\ Limit(s)' \in Nat
    BY Typed, WeightIs, WeightNext
  <2>8. Waits(a) + Waits(b) > 0 => Limit(s) > 0
    <3>1. Weight(s) <= Limit(s)
      BY DEF Revived
    <3>2. Weight(s) >= Waits(a) + Waits(b) /\ Weight(s) \in Nat
      <4>1. Cardinality(Fills(s)) \in Nat
        BY WeightIs
      <4> QED
        BY <2>7, <4>1 DEF Weight
    <3> HIDE DEF Weight, Limit, Waits
    <3> QED
      BY <2>7, <3>1, <3>2
  <2> HIDE DEF a, b
  <2>9. /\ In(a, T) \in {0, 1} /\ In(a, once) \in {0, 1} /\ In(a, twice) \in {0, 1}
        /\ In(b, T) \in {0, 1} /\ In(b, once) \in {0, 1} /\ In(b, twice) \in {0, 1}
    OBVIOUS
  <2>10. CASE faults' = faults
    <3>1. /\ In(a, twice) = 0 /\ In(b, twice) = 0
          /\ In(a, T) + In(a, once) <= Waits(a) /\ In(b, T) + In(b, once) <= Waits(b)
      <4>1. ASSUME NEW m \in {a, b} PROVE In(m, twice) = 0 /\ In(m, T) + In(m, once) <= Waits(m)
        <5>1. /\ In(m, twice) = 0 /\ In(m, T) + In(m, once) <= 1
              /\ In(m, T) <= Waits(m) /\ In(m, once) <= Waits(m) /\ Waits(m) \in {0, 1}
          BY <2>2, <2>4, <2>7, <2>10
        <5> QED
          BY <5>1
      <4> QED
        BY <4>1
    <3>2. Waits(a)' = In(a, T) /\ Waits(b)' = In(b, T)
      BY <2>2
    <3> HIDE DEF In
    <3> QED
      BY <2>1, <2>6, <2>7, <2>9, <3>1, <3>2 DEF a, b
  <2>11. CASE faults' = faults + 1
    <3>1. ASSUME NEW m \in {a, b}
          PROVE  In(m, T) + In(m, once) + In(m, twice) <= 2 * Waits(m)
      <4>1. /\ In(m, twice) = 0 \/ In(m, T) = 0 \/ In(m, once) = 0
            /\ In(m, T) <= Waits(m) /\ In(m, once) <= Waits(m) /\ In(m, twice) <= In(m, once)
            /\ Waits(m) \in {0, 1}
        BY <2>2, <2>5, <2>7
      <4>2. In(m, T) \in {0, 1} /\ In(m, once) \in {0, 1} /\ In(m, twice) \in {0, 1}
        OBVIOUS
      <4> HIDE DEF In
      <4> QED
        BY <4>1, <4>2
    <3>2. Waits(a)' = In(a, T) /\ Waits(b)' = In(b, T)
      BY <2>2
    <3>3. faults' > faults
      BY <2>7, <2>11
    <3>4. Waits(a) + Waits(b) <= 1
      BY <2>3, <2>7
    <3>5. /\ In(a, T) + In(a, once) + In(a, twice) <= 2 * Waits(a)
          /\ In(b, T) + In(b, once) + In(b, twice) <= 2 * Waits(b)
      BY <3>1
    <3>6. Waits(a) + Waits(b) > 0 => Limit(s)' >= Limit(s) + 1
      BY <2>6, <2>8, <3>3
    <3> HIDE DEF In
    <3>7. queue'[s] + Waits(a)' + Waits(b)' - Limit(s)' <= queue[s] + Waits(a) + Waits(b) - Limit(s)
      BY <2>1, <2>6, <2>7, <2>9, <3>2, <3>4, <3>5, <3>6
    <3> QED
      BY <3>7 DEF a, b
  <2> QED
    BY <1>1, <2>10, <2>11
<1>4. \A s \in Signals : pending'[<<s, "boot">>] /= None => pending[<<s, "boot">>] /= None
  BY <1>0, MembersAre DEF Cycle, Keep
<1> QED
  BY <1>1, <1>3, <1>4, RevivedKept

\* A cold boot gives each rejected signal one more way to a fill.
LEMMA RevivedBoot ==
  ASSUME LedgerType, LedgerType', Revived, ColdBoot
  PROVE  Revived'
<1>0. PICK rejects \in Newest("reject") :
        pending' = [m \in Members |->
                      IF m[2] = "boot" /\ \E i \in rejects : ledger[i].signal = m[1]
                      THEN clock + BootTtl ELSE pending[m]]
  BY DEF ColdBoot
<1>1. /\ UNCHANGED <<ledger, decided, queue>> /\ boots' = boots + 1 /\ boots \in Nat
      /\ faults \in Nat /\ faults' \in Nat /\ faults <= faults'
  BY Typed DEF ColdBoot, Fault
<1>2. \A i \in rejects : i \in DOMAIN ledger /\ ledger[i].kind = "reject"
  BY DEF Newest, Recent
<1>3. \A s \in Signals : pending'[<<s, "arbiter">>] = pending[<<s, "arbiter">>]
  BY <1>0, MembersAre
<1>4. \A s \in Signals : decided[s] /= "reject" => pending'[<<s, "boot">>] = pending[<<s, "boot">>]
  BY <1>0, <1>2, MembersAre DEF Revived
<1>5. ASSUME NEW s \in Signals
      PROVE  queue'[s] + Waits(<<s, "arbiter">>)' + Waits(<<s, "boot">>)' - Limit(s)'
               <= queue[s] + Waits(<<s, "arbiter">>) + Waits(<<s, "boot">>) - Limit(s)
  <2>1. Waits(<<s, "arbiter">>)' = Waits(<<s, "arbiter">>) /\ Waits(<<s, "boot">>)' \in {0, 1}
    BY <1>3 DEF Waits
  <2>2. CASE decided[s] = "reject"
    <3>1. Limit(s)' >= Limit(s) + 1
      <4>1. decided'[s] = "reject"
        BY <1>1, <2>2
      <4>2. LimitOf("reject", boots, faults) + 1 <= LimitOf("reject", boots + 1, faults')
        BY <1>1, LimitRises
      <4>3. Limit(s) = LimitOf("reject", boots, faults) /\ Limit(s)' = LimitOf("reject", boots + 1, faults')
        BY <1>1, <2>2, <4>1 DEF Limit
      <4> QED
        BY <4>2, <4>3, WeightIs, WeightNext
    <3> QED
      BY <1>1, <2>1, <3>1, WeightIs, WeightNext
  <2>3. CASE decided[s] /= "reject"
    <3>1. Waits(<<s, "boot">>)' = Waits(<<s, "boot">>)
      BY <1>4, <2>3 DEF Waits
    <3>2. Limit(s)' >= Limit(s)
      <4>1. decided'[s] = decided[s] /\ boots' \in Nat
        BY <1>1
      <4>2. CASE decided[s] = "authorize"
        <5>1. Limit(s) = 1 + faults /\ Limit(s)' = 1 + faults'
          <6>1. /\ LimitOf("authorize", boots, faults) = 1 + faults
                /\ LimitOf("authorize", boots', faults') = 1 + faults'
            BY <1>1, <4>1, LimitIs
          <6>2. Limit(s) = LimitOf(decided[s], boots, faults) /\ Limit(s)' = LimitOf(decided'[s], boots', faults')
            BY DEF Limit
          <6> QED
            BY <4>1, <4>2, <6>1, <6>2
        <5> QED
          <6>1. \A f, g \in Nat : f <= g => 1 + g >= 1 + f
            OBVIOUS
          <6> QED
            BY <1>1, <5>1, <6>1
      <4>3. CASE decided[s] /= "authorize"
        <5>1. Limit(s) = 0 /\ Limit(s)' = 0
          BY <1>1, <2>3, <4>1, <4>3, LimitIs DEF Limit
        <5> QED
          BY <5>1
      <4> QED
        BY <4>2, <4>3
    <3> QED
      BY <1>1, <2>1, <3>1, <3>2, WeightIs, WeightNext
  <2> QED
    BY <2>2, <2>3
<1>6. \A s \in Signals : pending'[<<s, "boot">>] /= None =>
                           pending[<<s, "boot">>] /= None \/ decided'[s] = "reject"
  BY <1>1, <1>4
<1> QED
  BY <1>1, <1>5, <1>6, RevivedKept

LEMMA RevivedNext == LedgerType /\ LedgerType' /\ Revived /\ [Next]_vars => Revived'
<1> SUFFICES ASSUME LedgerType, LedgerType', Revived, [Next]_vars PROVE Revived'
  OBVIOUS
<1>0. boots \in Nat /\ faults \in Nat /\ faults' \in Nat
  <2>1. faults' \in 0..MaxFaults
    BY DEF LedgerType, TypeOK
  <2> QED
    BY <2>1, Typed, Sizes
<1>1. ASSUME UNCHANGED <<ledger, decided, pending, queue, boots>>, faults' >= faults PROVE Revived'
  <2>1. ASSUME NEW s \in Signals
        PROVE  queue'[s] + Waits(<<s, "arbiter">>)' + Waits(<<s, "boot">>)' - Limit(s)'
                 <= queue[s] + Waits(<<s, "arbiter">>) + Waits(<<s, "boot">>) - Limit(s)
    <3>1. Limit(s)' >= Limit(s)
      BY <1>1, LimitGrows
    <3>2. Waits(<<s, "arbiter">>)' = Waits(<<s, "arbiter">>) /\ Waits(<<s, "boot">>)' = Waits(<<s, "boot">>)
      BY <1>1 DEF Waits
    <3> QED
      BY <1>1, <3>1, <3>2, WeightIs, WeightNext
  <2> QED
    BY <1>1, <2>1, RevivedKept
<1>2. ASSUME NEW s \in Signals, Evaluate(s) PROVE Revived'
  <2>1. PICK d \in {"authorizing", "rejecting"} : decided' = [decided EXCEPT ![s] = d]
    BY <1>2 DEF Evaluate, Decide
  <2>2. decided[s] = None /\ UNCHANGED <<ledger, pending, queue, boots>> /\ faults' >= faults
    BY <1>0, <1>2 DEF Evaluate, Fault
  <2>3. \A r \in Signals : r /= s => decided'[r] = decided[r]
    BY <2>1, Typed
  <2>4. decided[s] /= "reject" /\ decided[s] /= "authorize"
    BY <2>2, Sizes
  <2>5. ASSUME NEW r \in Signals PROVE Limit(r)' >= Limit(r)
    <3>1. CASE r = s
      <4>1. Limit(r) = 0 /\ Limit(r)' \in Nat
        <5>1. LimitOf(decided[s], boots, faults) = 0
          BY <1>0, <2>4, LimitIs
        <5> QED
          BY <3>1, <5>1, WeightNext DEF Limit
      <4> QED
        BY <4>1
    <3>2. CASE r /= s
      <4>1. LimitOf(decided[r], boots, faults) <= LimitOf(decided[r], boots, faults')
        BY <1>0, <2>2, LimitRises
      <4>2. Limit(r) = LimitOf(decided[r], boots, faults) /\ Limit(r)' = LimitOf(decided[r], boots, faults')
        BY <2>2, <2>3, <3>2 DEF Limit
      <4> QED
        BY <4>1, <4>2, WeightIs, WeightNext
    <3> QED
      BY <3>1, <3>2
  <2>6. \A r \in Signals : Waits(<<r, "arbiter">>)' = Waits(<<r, "arbiter">>)
                           /\ Waits(<<r, "boot">>)' = Waits(<<r, "boot">>)
    BY <2>2 DEF Waits
  <2>7. \A r \in Signals : decided[r] = "reject" => decided'[r] = "reject"
    BY <2>3, <2>4
  <2>8. ASSUME NEW r \in Signals
        PROVE  queue'[r] + Waits(<<r, "arbiter">>)' + Waits(<<r, "boot">>)' - Limit(r)'
                 <= queue[r] + Waits(<<r, "arbiter">>) + Waits(<<r, "boot">>) - Limit(r)
    BY <2>2, <2>5, <2>6, WeightIs, WeightNext
  <2> QED
    BY <2>2, <2>7, <2>8, RevivedKept
<1>3. ASSUME NEW s \in Signals, Authorize(s) PROVE Revived'
  <2>1. /\ decided[s] = "authorizing" /\ decided' = [decided EXCEPT ![s] = "authorize"]
        /\ pending' = [pending EXCEPT ![<<s, "arbiter">>] = clock + TradeTtl]
        /\ UNCHANGED <<ledger, queue, boots, faults>>
    BY <1>3 DEF Authorize, Enter
  <2>2. \A r \in Signals : /\ decided'[r] = (IF r = s THEN "authorize" ELSE decided[r])
                           /\ pending'[<<r, "boot">>] = pending[<<r, "boot">>]
                           /\ r /= s => pending'[<<r, "arbiter">>] = pending[<<r, "arbiter">>]
    BY <2>1, Typed, MembersAre
  <2>3. \A r \in Signals : decided[r] = "reject" => decided'[r] = "reject"
    BY <2>1, <2>2
  <2>4. ASSUME NEW r \in Signals
        PROVE  queue'[r] + Waits(<<r, "arbiter">>)' + Waits(<<r, "boot">>)' - Limit(r)'
                 <= queue[r] + Waits(<<r, "arbiter">>) + Waits(<<r, "boot">>) - Limit(r)
    <3>1. Waits(<<r, "boot">>)' = Waits(<<r, "boot">>) /\ queue'[r] = queue[r]
      BY <2>1, <2>2 DEF Waits
    <3>2. CASE r = s
      <4>1. Limit(r) = 0 /\ Limit(r)' >= 1
        <5>1. decided[r] = "authorizing" /\ decided'[r] = "authorize"
          BY <2>1, <2>2, <3>2
        <5>2. Limit(r) = 0 /\ Limit(r)' = 1 + faults'
          <6>1. LimitOf("authorizing", boots, faults) = 0 /\ LimitOf("authorize", boots, faults') = 1 + faults'
            BY <1>0, LimitIs
          <6>2. Limit(r) = LimitOf(decided[r], boots, faults) /\ Limit(r)' = LimitOf(decided'[r], boots', faults')
            BY DEF Limit
          <6> QED
            BY <2>1, <5>1, <6>1, <6>2
        <5> QED
          <6>1. \A f \in Nat : 1 + f \in Nat /\ 1 + f >= 1
            OBVIOUS
          <6> QED
            BY <1>0, <5>2, <6>1
      <4>2. Waits(<<r, "arbiter">>)' \in {0, 1}
        BY DEF Waits
      <4> QED
        BY <3>1, <4>1, <4>2, WeightIs, WeightNext
    <3>3. CASE r /= s
      <4>1. Limit(r)' = Limit(r) /\ Waits(<<r, "arbiter">>)' = Waits(<<r, "arbiter">>)
        BY <2>1, <2>2, <3>3 DEF Limit, Waits
      <4> QED
        BY <3>1, <4>1, WeightIs
    <3> QED
      BY <3>2, <3>3
  <2> QED
    BY <2>1, <2>2, <2>3, <2>4, RevivedKept
<1>4. CASE RedisLost
  <2>1. UNCHANGED <<ledger, decided, boots>> /\ faults' >= faults
    BY <1>0, <1>4 DEF RedisLost, Fault
  <2>2. \A s \in Signals : /\ queue'[s] = 0 /\ Limit(s)' >= Limit(s)
                           /\ Waits(<<s, "arbiter">>)' = 0 /\ Waits(<<s, "boot">>)' = 0
                           /\ pending'[<<s, "boot">>] = None
    <3>1. \A s \in Signals : Limit(s)' >= Limit(s)
      BY <2>1, LimitGrows
    <3> QED
      BY <1>4, <3>1, NothingIs, MembersAre DEF RedisLost, Waits
  <2>3. ASSUME NEW s \in Signals
        PROVE  queue'[s] + Waits(<<s, "arbiter">>)' + Waits(<<s, "boot">>)' - Limit(s)'
                 <= queue[s] + Waits(<<s, "arbiter">>) + Waits(<<s, "boot">>) - Limit(s)
    BY <2>2, WeightIs, WeightNext
  <2> QED
    BY <2>1, <2>2, <2>3, RevivedKept
<1>5. ASSUME NEW t \in scan.todo, Check(t) PROVE Revived'
  BY <1>0, <1>1, <1>5 DEF Check, Fault
<1>6. CASE RestartReconciler
  BY <1>0, <1>1, <1>6 DEF RestartReconciler, Fault
<1>7. CASE Tick \/ Scan \/ UNCHANGED vars
  BY <1>0, <1>1, <1>7 DEF Tick, Scan, vars
<1> QED
  BY <1>2, <1>3, <1>4, <1>5, <1>6, <1>7, RevivedReject, RevivedMatch, RevivedCycle, RevivedBoot
     DEF Next

\* Passes to come become fewer with time, by one with a pass that reaches
\* the trade, and more by at most one when a sleep is cut short.
LEMMA PassesFall ==
  ASSUME NEW n \in Nat, NEW c \in Nat, NEW e \in Nat
  PROVE  /\ Passes(n, e) \in Nat /\ Passes(n, e) <= 2
         /\ n <= c => Passes(c, e) <= Passes(n, e)
         /\ n <= c + Interval => Passes(c, e) <= Passes(n, e) + 1
         /\ n <= c /\ e + Grace <= c /\ c <= e + 2 * Interval =>
              Passes(c + Interval, e) + 1 <= Passes(n, e)
BY Sizes DEF Passes

LEMMA ExpiryTyped ==
  ASSUME LedgerType, NEW s \in Signals, pending[<<s, "arbiter">>] /= None
  PROVE  pending[<<s, "arbiter">>] \in Nat
<1>1. pending[<<s, "arbiter">>] \in Expiry \cup {None}
  BY MembersAre, Typed
<1> QED
  BY <1>1, Sizes DEF Expiry

LEMMA ReportsTyped ==
  ASSUME LedgerType, NEW s \in Signals
  PROVE  /\ lost[s] \in Nat /\ faults \in Nat /\ Listed(s) \in Nat /\ Ahead(s) \in Nat
         /\ clock \in Nat /\ nextScan \in Nat
<1>1. nextScan \in Nat /\ clock \in Nat /\ faults \in Nat /\ lost[s] \in Nat
  BY Typed
<1>2. Ahead(s) \in Nat
  BY <1>1, ExpiryTyped, PassesFall DEF Ahead
<1> QED
  BY <1>1, <1>2 DEF Listed

LEMMA ReportedInit == Init => Reported
<1> SUFFICES ASSUME Init PROVE Reported
  OBVIOUS
<1>1. scan.todo = {}
  BY AsleepIs DEF Init
<1>2. \A s \in Signals : pending[<<s, "arbiter">>] = None /\ lost[s] = 0
  BY NothingIs, MembersAre DEF Init
<1>3. \A s \in Signals : Listed(s) = 0 /\ Ahead(s) = 0
  BY <1>1, <1>2 DEF Listed, Ahead
<1>4. nextScan = 0 /\ clock = 0 /\ faults = 0
  BY DEF Init
<1> QED
  <2>1. ASSUME NEW s \in Signals PROVE lost[s] + Listed(s) + Ahead(s) <= 2 + faults
    <3>1. lost[s] = 0 /\ Listed(s) = 0 /\ Ahead(s) = 0 /\ faults = 0
      BY <1>2, <1>3, <1>4
    <3> QED
      BY <3>1
  <2>2. nextScan <= clock + Interval
    BY <1>4, Sizes
  <2> QED
    BY <1>1, <1>2, <2>1, <2>2 DEF Reported

LEMMA SleepBound ==
  ASSUME LedgerType, Reported, nextScan' = nextScan, clock' \in Nat, clock' >= clock
  PROVE  nextScan' <= clock' + Interval
<1>1. nextScan <= clock + Interval
  BY DEF Reported
<1>2. nextScan \in Nat /\ clock \in Nat /\ Interval \in Nat
  BY Typed, Sizes
<1>3. \A n, c, d \in Nat : n <= c + Interval /\ c <= d => n <= d + Interval
  BY Sizes
<1>4. clock <= clock'
  BY <1>2
<1>5. nextScan <= clock' + Interval
  BY <1>1, <1>2, <1>3, <1>4
<1> QED
  BY <1>5

\* Steps of others: what is charged to a trade does not grow.
LEMMA ReportedKept ==
  ASSUME LedgerType, Reported, UNCHANGED <<scan, nextScan>>, clock' \in Nat, clock' >= clock,
         faults' \in Nat, faults' >= faults,
         \A s \in Signals : /\ decided[s] = "authorize" => decided'[s] = "authorize"
                            /\ lost'[s] = lost[s] \/ lost'[s] = 0
                            /\ \/ pending'[<<s, "arbiter">>] = None
                               \/ pending'[<<s, "arbiter">>] = pending[<<s, "arbiter">>]
  PROVE  Reported'
<1>1. nextScan' <= clock' + Interval
  BY SleepBound
<1>2. ASSUME NEW s \in Signals PROVE lost'[s] + Listed(s)' + Ahead(s)' <= 2 + faults'
  <2>1. Listed(s)' = Listed(s)
    BY DEF Listed
  <2>2. Ahead(s)' = Ahead(s) \/ Ahead(s)' = 0
    BY DEF Ahead
  <2>3. lost[s] + Listed(s) + Ahead(s) <= 2 + faults
    BY DEF Reported
  <2>4. lost'[s] = lost[s] \/ lost'[s] = 0
    OBVIOUS
  <2> QED
    BY <2>1, <2>2, <2>3, <2>4, ReportsTyped
<1>3. \A s \in Signals : decided'[s] /= "authorize" => lost'[s] = 0
  BY DEF Reported
<1>4. \A t, u \in scan'.todo : t.signal = u.signal => t = u
  BY DEF Reported
<1> QED
  BY <1>1, <1>2, <1>3, <1>4 DEF Reported

LEMMA ReportedScan ==
  ASSUME LedgerType, Reported, Scan
  PROVE  Reported'
<1>1. /\ scan.todo = {} /\ nextScan <= clock /\ nextScan' = clock + Interval
      /\ UNCHANGED <<clock, decided, pending, lost, faults>>
  BY Typed DEF Scan
<1>2. scan' = Asleep \/ scan' = [now |-> clock, todo |-> Overdue, purged |-> purgedAt]
  BY DEF Scan
<1>3. scan'.todo \subseteq Overdue
  BY <1>2, AsleepIs
<1>4. \A t, u \in scan'.todo : t.signal = u.signal => t = u
  <2>1. ASSUME NEW t \in Overdue
        PROVE  t = [signal |-> t.signal, expiry |-> pending[<<t.signal, "arbiter">>]]
    <3>1. PICK s \in Signals : t = [signal |-> s, expiry |-> pending[<<s, "arbiter">>]]
      BY DEF Overdue
    <3>2. t.signal = s
      BY <3>1
    <3> QED
      BY <3>1, <3>2
  <2> QED
    BY <1>3, <2>1
<1>5. ASSUME NEW s \in Signals PROVE lost'[s] + Listed(s)' + Ahead(s)' <= 2 + faults'
  <2>1. Listed(s) = 0
    BY <1>1 DEF Listed
  <2>2. lost[s] + Ahead(s) <= 2 + faults
    <3>1. lost[s] + Listed(s) + Ahead(s) <= 2 + faults
      BY DEF Reported
    <3> QED
      BY <2>1, <3>1, ReportsTyped
  <2>3. Listed(s)' + Ahead(s)' <= Ahead(s) /\ Ahead(s)' \in Nat /\ Listed(s)' \in Nat
    <3> DEFINE e == pending[<<s, "arbiter">>]
    <3>1. CASE e = None
      <4>1. ~\E t \in scan'.todo : t.signal = s
        <5>1. ASSUME NEW t \in Overdue, t.signal = s PROVE FALSE
          <6>1. t.expiry = e /\ t.expiry \in Nat
            BY <5>1, OverdueIs
          <6> QED
            BY <3>1, <6>1, Sizes
        <5> QED
          BY <1>3, <5>1
      <4>2. Listed(s)' = 0 /\ Ahead(s)' = 0 /\ Ahead(s) = 0
        BY <1>1, <3>1, <4>1 DEF Listed, Ahead
      <4> QED
        BY <4>2
    <3>2. CASE e /= None
      <4>1. e \in Nat /\ clock \in Nat /\ nextScan \in Nat
        BY <3>2, ReportsTyped, ExpiryTyped
      <4>2. Ahead(s) = Passes(nextScan, e) /\ Ahead(s)' = Passes(clock + Interval, e)
        BY <1>1, <3>2 DEF Ahead
      <4>3. clock + Interval \in Nat /\ nextScan <= clock + Interval
        BY <1>1, <4>1, Sizes
      <4>4. Passes(clock + Interval, e) <= Passes(nextScan, e)
            /\ Passes(clock + Interval, e) \in Nat /\ Passes(nextScan, e) \in Nat
        BY <4>1, <4>3, PassesFall
      <4>5. CASE \E t \in scan'.todo : t.signal = s
        <5>1. e + Grace <= clock /\ clock <= e + 2 * Interval
          <6>1. PICK t \in Overdue : t.signal = s
            BY <1>3, <4>5
          <6>2. t.expiry = e /\ clock - 2 * Interval <= e /\ e <= clock - Grace
            BY <6>1, OverdueIs
          <6> QED
            BY <4>1, <6>2, Sizes
        <5>2. Passes(clock + Interval, e) + 1 <= Passes(nextScan, e)
          BY <1>1, <4>1, <5>1, PassesFall
        <5>3. Listed(s)' = 1
          BY <4>5 DEF Listed
        <5> QED
          BY <4>2, <4>4, <5>2, <5>3
      <4>6. CASE ~\E t \in scan'.todo : t.signal = s
        <5>1. Listed(s)' = 0
          BY <4>6 DEF Listed
        <5> QED
          BY <4>2, <4>4, <5>1
      <4> QED
        BY <4>5, <4>6
    <3> QED
      BY <3>1, <3>2
  <2> QED
    BY <1>1, <2>2, <2>3, ReportsTyped
<1>6. \A s \in Signals : decided'[s] /= "authorize" => lost'[s] = 0
  BY <1>1 DEF Reported
<1>7. nextScan' <= clock' + Interval
  BY <1>1, Typed, Sizes
<1> QED
  BY <1>4, <1>5, <1>6, <1>7 DEF Reported

LEMMA ReportedCheck ==
  ASSUME LedgerType, Reported, NEW t \in scan.todo, Check(t)
  PROVE  Reported'
<1>1. UNCHANGED <<clock, decided, pending>> /\ nextScan' = clock + Interval
  BY DEF Check
<1>2. /\ faults' >= faults /\ faults' \in Nat
      /\ \/ lost' = lost
         \/ lost' = [lost EXCEPT ![t.signal] = @ + 1]
  BY Typed DEF Check, Fault
<1>3. scan'.todo = scan.todo \ {t}
  BY AsleepIs, Typed DEF Check, Scans
<1>4. decided[t.signal] = "authorize" /\ t.signal \in Signals
  BY Typed DEF LedgerType, TypeOK, Scans, Overdues
<1>5. \A u, v \in scan'.todo : u.signal = v.signal => u = v
  BY <1>3 DEF Reported
<1>6. ASSUME NEW s \in Signals PROVE lost'[s] + Listed(s)' + Ahead(s)' <= 2 + faults'
  <2>1. lost[s] + Listed(s) + Ahead(s) <= 2 + faults
    BY DEF Reported
  <2>2. Ahead(s)' <= Ahead(s) /\ Ahead(s)' \in Nat
    <3> DEFINE e == pending[<<s, "arbiter">>]
    <3>1. CASE e = None
      BY <1>1, <3>1 DEF Ahead
    <3>2. CASE e /= None
      <4>1. e \in Nat /\ clock \in Nat /\ nextScan \in Nat
        BY <3>2, ReportsTyped, ExpiryTyped
      <4>2. Ahead(s) = Passes(nextScan, e) /\ Ahead(s)' = Passes(clock + Interval, e)
        BY <1>1, <3>2 DEF Ahead
      <4>3. clock + Interval \in Nat /\ nextScan <= clock + Interval
        BY <4>1, Sizes DEF Reported
      <4> QED
        BY <4>1, <4>2, <4>3, PassesFall
    <3> QED
      BY <3>1, <3>2
  <2>3. CASE s = t.signal
    <3>1. Listed(s) = 1
      BY <2>3 DEF Listed
    <3>2. Listed(s)' = 0
      BY <1>3, <2>3 DEF Listed, Reported
    <3>3. lost'[s] = lost[s] \/ lost'[s] = lost[s] + 1
      BY <1>2, Typed
    <3> QED
      BY <1>2, <2>1, <2>2, <3>1, <3>2, <3>3, ReportsTyped
  <2>4. CASE s /= t.signal
    <3>1. lost'[s] = lost[s]
      BY <1>2, <2>4, Typed
    <3>2. Listed(s)' = Listed(s)
      BY <1>3, <2>4 DEF Listed
    <3> QED
      BY <1>2, <2>1, <2>2, <3>1, <3>2, ReportsTyped
  <2> QED
    BY <2>3, <2>4
<1>7. \A s \in Signals : decided'[s] /= "authorize" => lost'[s] = 0
  <2>1. \A s \in Signals : s /= t.signal => lost'[s] = lost[s]
    BY <1>2, Typed
  <2> QED
    BY <1>1, <1>4, <2>1 DEF Reported
<1>8. nextScan' <= clock' + Interval
  BY <1>1, Typed, Sizes
<1> QED
  BY <1>5, <1>6, <1>7, <1>8 DEF Reported

\* A restart costs a fault, and brings the next pass forward by one.
LEMMA ReportedRestart ==
  ASSUME LedgerType, Reported, RestartReconciler
  PROVE  Reported'
<1>1. /\ scan'.todo = {} /\ nextScan' = clock /\ faults' = faults + 1
      /\ UNCHANGED <<clock, decided, pending, lost>>
  BY AsleepIs DEF RestartReconciler, Fault
<1>2. ASSUME NEW s \in Signals PROVE lost'[s] + Listed(s)' + Ahead(s)' <= 2 + faults'
  <2>1. lost[s] + Listed(s) + Ahead(s) <= 2 + faults
    BY DEF Reported
  <2>2. Listed(s)' = 0
    BY <1>1 DEF Listed
  <2>3. Ahead(s)' <= Ahead(s) + 1 /\ Ahead(s)' \in Nat
    <3> DEFINE e == pending[<<s, "arbiter">>]
    <3>1. CASE e = None
      BY <1>1, <3>1 DEF Ahead
    <3>2. CASE e /= None
      <4>1. e \in Nat /\ clock \in Nat /\ nextScan \in Nat
        BY <3>2, ReportsTyped, ExpiryTyped
      <4>2. Ahead(s) = Passes(nextScan, e) /\ Ahead(s)' = Passes(clock, e)
        BY <1>1, <3>2 DEF Ahead
      <4> QED
        BY <4>1, <4>2, PassesFall DEF Reported
    <3> QED
      BY <3>1, <3>2
  <2> QED
    BY <1>1, <2>1, <2>2, <2>3, ReportsTyped
<1>3. \A s \in Signals : decided'[s] /= "authorize" => lost'[s] = 0
  BY <1>1 DEF Reported
<1>4. nextScan' <= clock' + Interval
  <2>1. clock \in Nat
    BY Typed
  <2> QED
    BY <1>1, <2>1, Sizes
<1>5. \A u, v \in scan'.todo : u.signal = v.signal => u = v
  BY <1>1
<1> QED
  BY <1>2, <1>3, <1>4, <1>5 DEF Reported

LEMMA ReportedAuthorize ==
  ASSUME LedgerType, Reported, NEW s \in Signals, Authorize(s)
  PROVE  Reported'
<1>1. /\ decided[s] = "authorizing" /\ decided' = [decided EXCEPT ![s] = "authorize"]
      /\ pending' = [pending EXCEPT ![<<s, "arbiter">>] = clock + TradeTtl]
      /\ UNCHANGED <<clock, scan, nextScan, lost, faults>>
  BY DEF Authorize, Enter
<1>2. \A r \in Signals : /\ decided'[r] = (IF r = s THEN "authorize" ELSE decided[r])
                         /\ r /= s => pending'[<<r, "arbiter">>] = pending[<<r, "arbiter">>]
  BY <1>1, Typed, MembersAre
<1>3. pending'[<<s, "arbiter">>] = clock + TradeTtl /\ clock + TradeTtl \in Nat
  <2>1. clock \in Nat /\ pending \in [Members -> Expiry \cup {None}] /\ <<s, "arbiter">> \in Members
    BY Typed, MembersAre
  <2>2. clock + TradeTtl \in Nat
    BY <2>1, Sizes
  <2> QED
    BY <1>1, <2>1, <2>2
<1>4. ASSUME NEW r \in Signals PROVE lost'[r] + Listed(r)' + Ahead(r)' <= 2 + faults'
  <2>1. lost[r] + Listed(r) + Ahead(r) <= 2 + faults
    BY DEF Reported
  <2>2. Listed(r)' = Listed(r)
    BY <1>1 DEF Listed
  <2>3. CASE r = s
    <3>1. lost[r] = 0
      BY <1>1, <2>3 DEF Reported
    <3>2. Listed(r) = 0
      BY <1>1, <2>3 DEF Listed, LedgerType, TypeOK
    <3>3. Ahead(r)' = IF clock + TradeTtl = None THEN 0 ELSE Passes(nextScan, clock + TradeTtl)
      BY <1>1, <1>3, <2>3 DEF Ahead
    <3>4. Passes(nextScan, clock + TradeTtl) \in Nat /\ Passes(nextScan, clock + TradeTtl) <= 2
      BY <1>3, ReportsTyped, PassesFall
    <3>5. Ahead(r)' \in Nat /\ Ahead(r)' <= 2
      BY <3>3, <3>4
    <3> QED
      BY <1>1, <2>2, <3>1, <3>2, <3>5, ReportsTyped
  <2>4. CASE r /= s
    <3>1. Ahead(r)' = Ahead(r)
      BY <1>1, <1>2, <2>4 DEF Ahead
    <3> QED
      BY <1>1, <2>1, <2>2, <3>1
  <2> QED
    BY <2>3, <2>4
<1>5. \A r \in Signals : decided'[r] /= "authorize" => lost'[r] = 0
  BY <1>1, <1>2 DEF Reported
<1> QED
  BY <1>1, <1>4, <1>5 DEF Reported

LEMMA ReportedNext == LedgerType /\ Reported /\ [Next]_vars => Reported'
<1> SUFFICES ASSUME LedgerType, Reported, [Next]_vars PROVE Reported'
  OBVIOUS
<1>0. clock \in Nat /\ faults \in Nat
  BY Typed
<1>1. CASE Tick
  BY <1>0, <1>1, ReportedKept DEF Tick
<1>2. ASSUME NEW s \in Signals, Evaluate(s) PROVE Reported'
  <2>1. PICK d \in {"authorizing", "rejecting"} : decided' = [decided EXCEPT ![s] = d]
    BY <1>2 DEF Evaluate, Decide
  <2>2. /\ decided[s] = None
        /\ UNCHANGED <<clock, ledger, pending, queue, scan, nextScan, lost, replayed, boots, purgedAt>>
    BY <1>2 DEF Evaluate
  <2>3. \A r \in Signals : decided[r] = "authorize" => decided'[r] = "authorize"
    BY <2>1, <2>2, Typed, Sizes
  <2>4. faults' \in Nat /\ faults' >= faults
    BY <1>0, <1>2 DEF Evaluate, Fault
  <2> QED
    BY <1>0, <2>2, <2>3, <2>4, ReportedKept
<1>3. ASSUME NEW s \in Signals, Reject(s) PROVE Reported'
  <2>1. /\ decided[s] = "rejecting" /\ decided' = [decided EXCEPT ![s] = "reject"]
        /\ UNCHANGED <<clock, pending, scan, nextScan, lost>>
    BY <1>3 DEF Reject
  <2>2. \A r \in Signals : decided[r] = "authorize" => decided'[r] = "authorize"
    BY <2>1, Typed
  <2>3. faults' \in Nat /\ faults' >= faults
    BY <1>0, <1>3 DEF Reject, Fault
  <2> QED
    BY <1>0, <2>1, <2>2, <2>3, ReportedKept
<1>4. ASSUME NEW s \in Signals, Match(s) PROVE Reported'
  BY <1>0, <1>4, ReportedKept DEF Match, Fault
<1>5. CASE EngineCycle
  <2>1. PICK T, once, twice \in SUBSET Live : Cycle(T, once, twice)
    BY <1>5, CycleIs
  <2>2. \A s \in Signals : \/ pending'[<<s, "arbiter">>] = None
                           \/ pending'[<<s, "arbiter">>] = pending[<<s, "arbiter">>]
    BY <2>1, MembersAre DEF Cycle, Keep
  <2>3. /\ UNCHANGED <<clock, decided, scan, nextScan, lost>>
        /\ faults' \in Nat /\ faults' >= faults
    BY <1>0, <2>1 DEF Cycle, Fault
  <2> QED
    BY <1>0, <2>2, <2>3, ReportedKept
<1>6. CASE RedisLost
  <2>1. \A s \in Signals : pending'[<<s, "arbiter">>] = None /\ lost'[s] = 0
    BY <1>6, NothingIs, MembersAre DEF RedisLost
  <2>2. faults' \in Nat /\ faults' >= faults /\ UNCHANGED <<clock, decided, scan, nextScan>>
    BY <1>0, <1>6 DEF RedisLost, Fault
  <2> QED
    BY <1>0, <2>1, <2>2, ReportedKept
<1>7. CASE ColdBoot
  <2>1. \A s \in Signals : pending'[<<s, "arbiter">>] = pending[<<s, "arbiter">>]
    BY <1>7, MembersAre DEF ColdBoot
  <2>2. /\ faults' \in Nat /\ faults' >= faults
        /\ UNCHANGED <<clock, decided, scan, nextScan, lost>>
    BY <1>0, <1>7 DEF ColdBoot, Fault
  <2> QED
    BY <1>0, <2>1, <2>2, ReportedKept
<1>8. CASE UNCHANGED vars
  BY <1>0, <1>8, ReportedKept DEF vars
<1> QED
  BY <1>1, <1>2, <1>3, <1>4, <1>5, <1>6, <1>7, <1>8, ReportedAuthorize, ReportedScan,
     ReportedCheck, ReportedRestart DEF Next

\* However many rows, boots and faults there are: a cold boot revives only
\* what was rejected; a signal is filled once if it was authorized and once
\* for each boot if it was rejected, and once more for each fault, but never
\* when it was rejected and there was no boot; and a trade is reported twice
\* and once more for each fault.
THEOREM RepairsDoLittleHarmTheorem == Spec => []RepairsDoLittleHarm
<1>1. LedgerType /\ Revived /\ Reported => RepairsDoLittleHarm
  <2> SUFFICES ASSUME LedgerType, Revived, Reported PROVE RepairsDoLittleHarm
    OBVIOUS
  <2>1. ASSUME NEW s \in Signals PROVE Cardinality(Fills(s)) <= Limit(s)
    <3>1. Weight(s) <= Limit(s)
      BY DEF Revived
    <3> QED
      BY <3>1, WeightIs DEF Weight
  <2>2. FillsBounded
    BY <2>1 DEF FillsBounded, Fills, Limit, LimitOf
  <2>3. LostReportsBounded
    <3>1. SUFFICES ASSUME NEW s \in Signals PROVE lost[s] <= 2 + faults
      BY DEF LostReportsBounded
    <3>2. lost[s] + Listed(s) + Ahead(s) <= 2 + faults
      BY DEF Reported
    <3> QED
      BY <3>2, ReportsTyped
  <2> QED
    BY <2>2, <2>3 DEF RepairsDoLittleHarm, Revived
<1> QED
  BY <1>1, TypeInit, TypeNext, RevivedInit, RevivedNext, ReportedInit, ReportedNext, PTL DEF Spec
=============================================================================
