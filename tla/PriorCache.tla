----------------------------- MODULE PriorCache -----------------------------
(***************************************************************************)
(* How an arbiter gets the prior of one asset and desk: _fetch_prior of    *)
(* app/services/orchestrator.py looks into Redis, on a miss asks the       *)
(* ledger (query_win_rate) and caches the answer for five minutes;         *)
(* fetch_prior of the older orchestrator.py looks into Redis only.         *)
(*                                                                         *)
(* The ledger only grows, so a win rate is the number of rows it was       *)
(* computed from; None is the uninformative prior of 0.5.                  *)
(***************************************************************************)
EXTENDS Integers, FiniteSets

CONSTANTS Arbiters,     \* concurrent evaluations
          Ttl,          \* ex=300, in ticks
          MaxRows,      \* bound: rows of the ledger
          MaxFetch,     \* bound: ticks that a fetch takes
          MaxClock,     \* bound: ticks
          MaxFailures,  \* bound: calls that raise
          None

PriorCacheAssumption ==
    /\ IsFiniteSet(Arbiters)
    /\ Ttl \in Nat \ {0}                \* Redis refuses EX 0
    /\ {MaxRows, MaxFetch, MaxClock, MaxFailures} \subseteq Nat
    /\ None \notin Nat

VARIABLES clock,
          rows,      \* rows of the ledger on the asset and desk
          cache,     \* oniquant:prior:{asset_symbol}:{desk_id}
          fetch,     \* the fetch of each arbiter
          prior,     \* the prior that an arbiter used last
          lost,      \* calls that raised
          rowsAt     \* ghost: rows as each tick began

vars == <<clock, rows, cache, fetch, prior, lost, rowsAt>>

Rate == 0..MaxRows
Idle == [at |-> "idle", rate |-> None, begun |-> 0, floor |-> 0]
Unused == [rate |-> None, begun |-> 0, floor |-> 0, why |-> "unused"]

TypeOK ==
    /\ clock \in 0..MaxClock
    /\ rows \in Rate
    /\ cache \in [rate : Rate \cup {None}, expiry : 0..(MaxClock + Ttl)]
    /\ fetch \in [Arbiters -> [at : {"idle", "missed", "answered"}, rate : Rate \cup {None},
                               begun : 0..MaxClock, floor : Rate]]
    /\ prior \in [rate : Rate \cup {None}, begun : 0..MaxClock, floor : Rate,
                  why : {"unused", "known", "unknown", "failed"}]
    /\ lost \in 0..MaxFailures
    /\ rowsAt \in [0..MaxClock -> Rate]

Init ==
    /\ clock = 0
    /\ rows = 0
    /\ cache = [rate |-> None, expiry |-> 0]
    /\ fetch = [a \in Arbiters |-> Idle]
    /\ prior = Unused
    /\ lost = 0
    /\ rowsAt = [t \in 0..MaxClock |-> 0]

Visible == cache.expiry > clock

(* An arbiter ends its fetch that began as f with a prior.                 *)
Use(a, f, rate, why) ==
    /\ fetch' = [fetch EXCEPT ![a] = Idle]
    /\ prior' = [rate |-> rate, begun |-> f.begun, floor |-> f.floor, why |-> why]

Started == [Idle EXCEPT !.begun = clock, !.floor = IF cache.rate = None THEN 0 ELSE cache.rate]

Fails == lost < MaxFailures /\ lost' = lost + 1

----------------------------------------------------------------------------
Tick ==
    /\ clock < MaxClock
    /\ \A a \in Arbiters : fetch[a].at /= "idle" => clock < fetch[a].begun + MaxFetch
    /\ clock' = clock + 1
    /\ rowsAt' = [rowsAt EXCEPT ![clock + 1] = rows]
    /\ UNCHANGED <<rows, cache, fetch, prior, lost>>

(* A rejection or a fill is inserted. *)
Insert ==
    /\ rows < MaxRows
    /\ rows' = rows + 1
    /\ UNCHANGED <<clock, cache, fetch, prior, lost, rowsAt>>

(* Mutated form: a hit renews the entry. *)
HitRenews(a) ==
    /\ fetch[a].at = "idle"
    /\ Visible
    /\ Use(a, Started, cache.rate, "known")
    /\ cache' = [cache EXCEPT !.expiry = clock + Ttl]
    /\ UNCHANGED <<clock, rows, lost, rowsAt>>

Hit(a) ==
    /\ fetch[a].at = "idle"
    /\ Visible
    /\ Use(a, Started, cache.rate, "known")
    /\ UNCHANGED <<clock, rows, cache, lost, rowsAt>>

Miss(a) ==
    /\ fetch[a].at = "idle"
    /\ ~Visible
    /\ fetch' = [fetch EXCEPT ![a] = [Started EXCEPT !.at = "missed"]]
    /\ UNCHANGED <<clock, rows, cache, prior, lost, rowsAt>>

(* fetch_prior of the older orchestrator, which asks nobody else. *)
LegacyMiss(a) ==
    /\ fetch[a].at = "idle"
    /\ ~Visible
    /\ Use(a, Started, None, "failed")
    /\ UNCHANGED <<clock, rows, cache, lost, rowsAt>>

(* Mutated form: the query goes to a replica that lags behind. *)
QueryReplica(a) ==
    /\ fetch[a].at = "missed"
    /\ \E rate \in 1..rows :
         fetch' = [fetch EXCEPT ![a].at = "answered", ![a].rate = rate]
    /\ UNCHANGED <<clock, rows, cache, prior, lost, rowsAt>>

Query(a) ==
    /\ fetch[a].at = "missed"
    /\ rows > 0
    /\ fetch' = [fetch EXCEPT ![a].at = "answered", ![a].rate = rows]
    /\ UNCHANGED <<clock, rows, cache, prior, lost, rowsAt>>

(* Mutated form: the uninformative prior is cached as well. *)
QueryNothingCached(a) ==
    /\ fetch[a].at = "missed"
    /\ rows = 0
    /\ Use(a, fetch[a], None, "unknown")
    /\ cache' = [rate |-> None, expiry |-> clock + Ttl]
    /\ UNCHANGED <<clock, rows, lost, rowsAt>>

QueryNothing(a) ==
    /\ fetch[a].at = "missed"
    /\ rows = 0
    /\ Use(a, fetch[a], None, "unknown")
    /\ UNCHANGED <<clock, rows, cache, lost, rowsAt>>

Store(a) ==
    /\ fetch[a].at = "answered"
    /\ cache' = [rate |-> fetch[a].rate, expiry |-> clock + Ttl]
    /\ Use(a, fetch[a], fetch[a].rate, "known")
    /\ UNCHANGED <<clock, rows, lost, rowsAt>>

(* The query or the SET raises: the except clause passes, and even a rate  *)
(* that the ledger has answered with is given up for 0.5.                  *)
FetchFails(a) ==
    /\ fetch[a].at \in {"missed", "answered"}
    /\ Fails
    /\ Use(a, fetch[a], None, "failed")
    /\ UNCHANGED <<clock, rows, cache, rowsAt>>

Next ==
    \/ Tick
    \/ Insert
    \/ \E a \in Arbiters :
         \/ Hit(a) \/ Miss(a) \/ LegacyMiss(a)
         \/ Query(a) \/ QueryNothing(a) \/ Store(a) \/ FetchFails(a)

Spec == Init /\ [][Next]_vars

----------------------------------------------------------------------------
(* A prior knows every row that was there a TTL and a fetch before the     *)
(* arbiter asked, although entries are set after the query and another     *)
(* arbiter may overwrite a newer one.                                      *)
StalenessBounded ==
    LET oldest == prior.begun - Ttl - MaxFetch + 1 IN
    prior.rate /= None /\ oldest >= 0 => prior.rate >= rowsAt[oldest]

(* An arbiter never uses an older rate than the one that was cached last,  *)
(* expired or not, when it began. So a win rate runs backwards only when a *)
(* slower fetch overwrites what one that overlapped with it has stored.    *)
NoRegression == prior.rate /= None => prior.rate >= prior.floor

(* A desk with a history gets the uninformative prior only when a call     *)
(* failed in that very fetch (or from the older orchestrator); the lack of *)
(* an answer is never remembered.                                          *)
UninformativeIsEarned ==
    prior.rate = None /\ prior.why \in {"known", "unknown"} => rowsAt[prior.begun] = 0

(* A cached prior is neither too old, nor older than one known before, nor *)
(* a lack of knowledge that is remembered.                                 *)
PriorIsFresh == StalenessBounded /\ NoRegression /\ UninformativeIsEarned
=============================================================================
