---------------------------- MODULE SignalLedger ----------------------------
(***************************************************************************)
(* How the pieces around one asset and desk meet in signal_ledger and in   *)
(* pending_trades: the arbiter's prior (app/services/orchestrator.py), the *)
(* orchestration worker, the memory engine, the fills that                 *)
(* app/services/matcher.py persists, reconciler.py and cold_boot.py.       *)
(* What each does by itself is in Arbiter, OrchestrationWorker and         *)
(* TradeMemory; here an engine's cycle and an evaluation are one step.     *)
(***************************************************************************)
EXTENDS Integers, Sequences, FiniteSets

CONSTANTS Signals,
          Naming,     \* signals whose indicator_metadata carries their signal_id
          TradeTtl,   \* ttl_seconds, in ticks
          BootTtl,    \* TTL of a reconstructed trade
          CacheTtl,   \* ex=300 of the cached prior
          Grace,      \* the grace period of the reconciler
          Interval,   \* RECONCILE_INTERVAL
          Hour,       \* how far a cold boot looks back
          MaxClock,   \* bound: ticks
          MaxBoots,   \* bound: cold boots
          MaxFaults,  \* bound: calls that raise, restarts, losses of Redis
          None

ASSUME LedgerAssumption ==
    /\ IsFiniteSet(Signals)
    /\ Naming \subseteq Signals
    /\ {TradeTtl, BootTtl, CacheTtl, Grace, Interval, Hour} \subseteq Nat \ {0}
    /\ {MaxClock, MaxBoots, MaxFaults} \subseteq Nat
    /\ Grace <= Interval
    /\ None \notin Int \cup {"authorizing", "authorize", "rejecting", "reject"}

VARIABLES clock,
          ledger,     \* rows of signal_ledger, oldest first
          cache,      \* oniquant:prior: the rows it was computed from, its expiry
          decided,    \* decision on each signal
          pending,    \* pending_trades: the score of each member
          queue,      \* promotions of each signal that await the matcher
          scan,       \* the reconciler's pass
          nextScan,   \* when its sleep ends
          lost,       \* entries of lost_signals per signal
          replayed,   \* entries of active_executions by cold boots per signal
          boots, faults,
          purgedAt    \* ghost: when an engine last left something in pending_trades

vars == <<clock, ledger, cache, decided, pending, queue, scan, nextScan, lost, replayed,
          boots, faults, purgedAt>>

(* A trade and the one that a cold boot makes of a row are two members;    *)
(* only the first carries a signal_id.                                     *)
Members == Signals \X {"arbiter", "boot"}
Time == 0..MaxClock
Asleep == [now |-> 0, todo |-> {}, purged |-> 0]

Rows == [signal : Signals, kind : {"reject", "fill"}, won : BOOLEAN, ts : Time]

TypeOK ==
    /\ clock \in Time
    /\ ledger \in Seq(Rows)
    /\ cache \in [rows : 0..Len(ledger), expiry : 0..(MaxClock + CacheTtl)]
    /\ decided \in [Signals -> {"authorizing", "authorize", "rejecting", "reject", None}]
    /\ pending \in [Members -> 0..(MaxClock + TradeTtl + BootTtl) \cup {None}]
    /\ queue \in [Signals -> Nat]
    /\ scan.now \in Time /\ scan.purged \in Time
    /\ \A t \in scan.todo : decided[t.signal] = "authorize" /\ t.expiry < scan.now
    /\ nextScan \in 0..(MaxClock + Interval)
    /\ lost \in [Signals -> Nat]
    /\ replayed \in [Signals -> Nat]
    /\ boots \in 0..MaxBoots
    /\ faults \in 0..MaxFaults
    /\ purgedAt \in Time

NoPending == [m \in Members |-> None]
NoEntries == [s \in Signals |-> 0]
NoCache == [rows |-> 0, expiry |-> 0]

Init ==
    /\ clock = 0
    /\ ledger = <<>>
    /\ cache = NoCache
    /\ decided = [s \in Signals |-> None]
    /\ pending = NoPending
    /\ queue = NoEntries
    /\ scan = Asleep
    /\ nextScan = 0
    /\ lost = NoEntries
    /\ replayed = NoEntries
    /\ boots = 0
    /\ faults = 0
    /\ purgedAt = 0

Fault == faults < MaxFaults /\ faults' = faults + 1

Tick ==
    /\ clock < MaxClock
    /\ clock' = clock + 1
    /\ UNCHANGED <<ledger, cache, decided, pending, queue, scan, nextScan, lost, replayed,
                   boots, faults, purgedAt>>

----------------------------------------------------------------------------
(* The rows of every signal of the asset and desk, in the last thirty      *)
(* days, which no behaviour of the model outlasts.                         *)

IsWin(row) == row.won
Rejection(s) == [signal |-> s, kind |-> "reject", won |-> FALSE, ts |-> clock]
Fill(s, won) == [signal |-> s, kind |-> "fill", won |-> won, ts |-> clock]

Wins(rows) == Cardinality({i \in DOMAIN rows : IsWin(rows[i])})

(* Mutated form: rejections are no trades of the win rate. *)
TotalOfFills(rows) == Cardinality({i \in DOMAIN rows : rows[i].kind = "fill"})

(* Every row with a direction counts, whatever it records. *)
Total(rows) == Len(rows)

First(n) == SubSeq(ledger, 1, n)

(* The likelihood ratio lies in 0.42 .. 2.34 and the floor is 0.695, over  *)
(* a prior of 0.5 where there is no row: some ratio authorizes above the   *)
(* odds 695/305 / 2.34, and some rejects up to 695/305 / 0.42.            *)
MayAuthorize(rows) == Total(rows) = 0 \/ 14087 * Wins(rows) > 6950 * Total(rows)
MayReject(rows) == Total(rows) = 0 \/ 8231 * Wins(rows) <= 6950 * Total(rows)

Decide(s, rows) ==
    \/ MayAuthorize(rows) /\ decided' = [decided EXCEPT ![s] = "authorizing"]
    \/ MayReject(rows) /\ decided' = [decided EXCEPT ![s] = "rejecting"]

Cached == cache.rows > 0 /\ cache.expiry > clock

(* The prior: from the cache, or from a query, whose answer is cached      *)
(* unless there is none, or 0.5 after a call that raised.                  *)
Evaluate(s) ==
    /\ decided[s] = None
    /\ \/ /\ Cached
          /\ Decide(s, First(cache.rows))
          /\ UNCHANGED <<cache, faults>>
       \/ /\ ~Cached
          /\ Decide(s, ledger)
          /\ cache' = IF Total(ledger) = 0 THEN cache
                      ELSE [rows |-> Len(ledger), expiry |-> clock + CacheTtl]
          /\ UNCHANGED faults
       \/ /\ ~Cached
          /\ Fault
          /\ Decide(s, <<>>)
          /\ UNCHANGED cache
    /\ UNCHANGED <<clock, ledger, pending, queue, scan, nextScan, lost, replayed, boots, purgedAt>>

Enter(s) ==
    /\ decided[s] = "authorizing"
    /\ decided' = [decided EXCEPT ![s] = "authorize"]
    /\ pending' = [pending EXCEPT ![<<s, "arbiter">>] = clock + TradeTtl]
    /\ UNCHANGED <<clock, cache, queue, scan, nextScan, lost, replayed, boots, faults, purgedAt>>

(* Mutated form: an authorized signal is inserted into the ledger as well. *)
AuthorizeLogged(s) == Enter(s) /\ ledger' = Append(ledger, Rejection(s))

Authorize(s) == Enter(s) /\ UNCHANGED ledger

Reject(s) ==
    /\ decided[s] = "rejecting"
    /\ decided' = [decided EXCEPT ![s] = "reject"]
    /\ \/ ledger' = Append(ledger, Rejection(s)) /\ UNCHANGED faults
       \/ Fault /\ UNCHANGED ledger                     \* logged, and acknowledged
    /\ UNCHANGED <<clock, cache, pending, queue, scan, nextScan, lost, replayed, boots, purgedAt>>

----------------------------------------------------------------------------
Live == {m \in Members : pending[m] /= None /\ pending[m] > clock}
Keep(T) == pending' = [m \in Members |-> IF m \in T THEN pending[m] ELSE None]
Promotions(s, T) == Cardinality({m \in T : m[1] = s})

(* A cycle of the engine: what is dead goes, what crossed is promoted and  *)
(* leaves. A timeout replays the pipeline, and some promotions are there   *)
(* twice; where it breaks, the promotions sent so far stay in pending.     *)
EngineCycle ==
    /\ \E hits \in SUBSET Live : \E sent \in SUBSET hits :
         \/ /\ Keep(Live \ hits)
            /\ queue' = [s \in Signals |-> queue[s] + Promotions(s, hits) + Promotions(s, sent)]
            /\ IF sent = {} THEN UNCHANGED faults ELSE Fault
         \/ /\ Keep(Live)
            /\ queue' = [s \in Signals |-> queue[s] + Promotions(s, sent)]
            /\ Fault
    /\ purgedAt' = IF pending' = NoPending THEN 0 ELSE clock
    /\ UNCHANGED <<clock, ledger, cache, decided, scan, nextScan, lost, replayed, boots>>

(* Mutated form: the order stays in the stream when its fill is persisted. *)
MatchAgain(s) ==
    /\ queue[s] > 0
    /\ \E won \in BOOLEAN : ledger' = Append(ledger, Fill(s, won))
    /\ Len(ledger) < 2 * Cardinality(Signals)
    /\ UNCHANGED <<clock, cache, decided, pending, queue, scan, nextScan, lost, replayed, boots,
                   faults, purgedAt>>

(* evaluate_and_persist, whose caller is not in the repository: no fill,   *)
(* or one whose INSERT fails, or one that is inserted. The caller is taken *)
(* to deliver at least once: when it fails, it delivers again.             *)
Match(s) ==
    /\ queue[s] > 0
    /\ \/ UNCHANGED ledger
       \/ \E won \in BOOLEAN : ledger' = Append(ledger, Fill(s, won))
    /\ \/ queue' = [queue EXCEPT ![s] = @ - 1] /\ UNCHANGED faults
       \/ Fault /\ UNCHANGED queue
    /\ UNCHANGED <<clock, cache, decided, pending, scan, nextScan, lost, replayed, boots, purgedAt>>

----------------------------------------------------------------------------
(* A row that names the signal: a fill with the metadata of its payload.   *)
(* That of a rejection is made anew, and a cold boot leaves it out.        *)
InLedger(s) ==
    /\ s \in Naming
    /\ decided[s] = "authorize"
    /\ \E i \in DOMAIN ledger : ledger[i].signal = s /\ ledger[i].kind = "fill"

(* Mutated form: no grace period. *)
WindowToNow == (clock - 2 * Interval)..clock

(* Mutated form: the window reaches back one pass more. *)
WindowOfThree == (clock - 3 * Interval)..(clock - Grace)

Window == (clock - 2 * Interval)..(clock - Grace)

(* Members without a signal_id are passed over. *)
Overdue ==
    {[signal |-> s, expiry |-> pending[<<s, "arbiter">>]] :
        s \in {s \in Signals : pending[<<s, "arbiter">>] \in Window}}

Scan ==
    /\ scan.todo = {}
    /\ clock >= nextScan
    /\ scan' = IF Overdue = {} THEN Asleep
               ELSE [now |-> clock, todo |-> Overdue, purged |-> purgedAt]
    /\ nextScan' = clock + Interval
    /\ UNCHANGED <<clock, ledger, cache, decided, pending, queue, lost, replayed, boots, faults,
                   purgedAt>>

(* The ledger is asked, one member after the other, after pending_trades   *)
(* was read; the sleep begins with the last of them.                       *)
Check(t) ==
    /\ t \in scan.todo
    /\ scan' = IF scan.todo = {t} THEN Asleep ELSE [scan EXCEPT !.todo = @ \ {t}]
    /\ \/ /\ lost' = IF InLedger(t.signal) THEN lost ELSE [lost EXCEPT ![t.signal] = @ + 1]
          /\ UNCHANGED faults
       \/ Fault /\ UNCHANGED lost
    /\ nextScan' = clock + Interval
    /\ UNCHANGED <<clock, ledger, cache, decided, pending, queue, replayed, boots, purgedAt>>

RestartReconciler ==
    /\ Fault
    /\ scan' = Asleep
    /\ nextScan' = clock
    /\ UNCHANGED <<clock, ledger, cache, decided, pending, queue, lost, replayed, boots, purgedAt>>

----------------------------------------------------------------------------
(* Redis loses everything: what the services hold in memory survives. *)
RedisLost ==
    /\ Fault
    /\ pending' = NoPending
    /\ queue' = NoEntries
    /\ cache' = NoCache
    /\ lost' = NoEntries
    /\ replayed' = NoEntries
    /\ UNCHANGED <<clock, ledger, decided, scan, nextScan, boots, purgedAt>>

Recent(kind) == {i \in DOMAIN ledger : ledger[i].kind = kind /\ ledger[i].ts >= clock - Hour}

(* Rows are read with the newest first. *)
Newest(kind) ==
    {rows \in SUBSET Recent(kind) : \A i \in rows, j \in Recent(kind) : j > i => j \in rows}

(* cold_boot.py also runs on a Redis that holds at most ten keys, of which *)
(* pending_trades is one. The pipeline is no transaction: when it breaks,  *)
(* only the newest rows, or the rows and the newest fills, are written.    *)
ColdBoot ==
    /\ boots < MaxBoots
    /\ boots' = boots + 1
    /\ \E rejects \in Newest("reject"), fills \in Newest("fill") :
         /\ \/ rejects = Recent("reject") /\ fills = Recent("fill") /\ UNCHANGED faults
            \/ Fault /\ (fills = {} \/ rejects = Recent("reject"))
         /\ pending' = [m \in Members |->
                          IF m[2] = "boot" /\ \E i \in rejects : ledger[i].signal = m[1]
                          THEN clock + BootTtl ELSE pending[m]]
         /\ replayed' = [s \in Signals |->
                           replayed[s] + Cardinality({i \in fills : ledger[i].signal = s})]
    /\ UNCHANGED <<clock, ledger, cache, decided, queue, scan, nextScan, lost, purgedAt>>

Next ==
    \/ Tick
    \/ \E s \in Signals : Evaluate(s) \/ Authorize(s) \/ Reject(s) \/ Match(s)
    \/ EngineCycle
    \/ Scan \/ RestartReconciler
    \/ \E t \in scan.todo : Check(t)
    \/ RedisLost
    \/ ColdBoot

Spec == Init /\ [][Next]_vars

----------------------------------------------------------------------------
(* What a cold boot puts into pending_trades, though meant to be the       *)
(* recent signals without a fill, are the rejected ones: the ledger has no *)
(* row of an authorized signal before its fill. So an authorized trade     *)
(* that Redis lost is never restored, and a rejected one becomes a trade.  *)
ReconstructsOnlyRejected ==
    \A s \in Signals : pending[<<s, "boot">>] /= None => decided[s] = "reject"

(* Fills persisted for a signal: one if it was authorized, one for each    *)
(* cold boot if it was rejected, and one more for each call that failed;   *)
(* none for a rejected signal before a cold boot, whatever failed.         *)
FillsBounded ==
    \A s \in Signals :
        Cardinality({i \in DOMAIN ledger : ledger[i].signal = s /\ ledger[i].kind = "fill"}) <=
            IF decided[s] = "authorize" THEN 1 + faults
            ELSE IF decided[s] = "reject" /\ boots > 0 THEN boots + faults
            ELSE 0

(* Rejections count as trades that were not won. A desk that has rows, no  *)
(* win among them and nothing under way stays so for the thirty days of    *)
(* the query: every signal is rejected, on whatever evidence, and each     *)
(* rejection is one more row. Only a query that fails, which leaves the    *)
(* prior at 0.5, or a cold boot, which revives a rejection, lets it trade. *)
LockedOut ==
    /\ ledger /= <<>>
    /\ \A i \in DOMAIN ledger : ~IsWin(ledger[i])
    /\ \A s \in Signals : queue[s] = 0 /\ decided[s] /= "authorizing"
    /\ pending = NoPending

LockoutLasts == [][LockedOut => LockedOut' \/ faults' > faults \/ boots' > boots]_vars

(* The reconciler reports a trade only when no memory engine purged since  *)
(* it expired, a grace period ago: while an engine runs, a trade without a *)
(* record is not in pending_trades any more when the reconciler looks.     *)
LostIsEngineOutage ==
    [][\A t \in scan.todo :
         lost'[t.signal] > lost[t.signal] =>
             scan.purged < t.expiry /\ t.expiry <= scan.now - Grace]_vars

(* It reports a trade at most twice, the window being two passes long,     *)
(* unless it was restarted or calls failed.                                *)
LostReportsBounded == \A s \in Signals : lost[s] <= 2 + faults

(* What the repairs themselves break is bounded: a cold boot revives what  *)
(* was rejected, once for each boot, and the reconciler repeats itself a   *)
(* little.                                                                 *)
RepairsDoLittleHarm == ReconstructsOnlyRejected /\ FillsBounded /\ LostReportsBounded
=============================================================================
