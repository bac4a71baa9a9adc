----------------------------- MODULE MCServices -----------------------------
(***************************************************************************)
(* Four services in one run: no two of them share a variable, so that      *)
(* `part', chosen once, says which of them takes its steps.                *)
(***************************************************************************)
EXTENDS Integers, Sequences

CONSTANTS Symbols, BookTtl, MaxUpdates, MaxFeedClock,                \* BookFeed
          Arbiters, PriorTtl, MaxRows, MaxFetch, MaxCacheClock,      \* PriorCache
          Desks, Threshold, Period, ResetTtl, MaxPass, MaxBeats, MaxHealthClock,
                                                                     \* HealthMonitor
          MaxRaises,                                                 \* both of them
          Consumers, MaxSignals, ReadCount, StreamMaxLen,            \* LegacyConsumer
          MaxFailures,                                     \* BookFeed, LegacyConsumer
          None

VARIABLES part,
          feedClock, sent, running, memory, flush, redis, downSince, feedFailures,
          cacheClock, rows, cache, fetch, prior, lost, rowsAt,
          healthClock, beat, pass, wake, failed, alertedAt, seenAt, beats,
          published, trimmed, unread, lastId, unacked, worker, verdicts, executed, faults

F == INSTANCE BookFeed WITH
        clock <- feedClock, failures <- feedFailures, Ttl <- BookTtl, MaxClock <- MaxFeedClock
C == INSTANCE PriorCache WITH
        clock <- cacheClock, Ttl <- PriorTtl, MaxClock <- MaxCacheClock, MaxFailures <- MaxRaises
H == INSTANCE HealthMonitor WITH
        clock <- healthClock, MaxClock <- MaxHealthClock, MaxFailures <- MaxRaises
L == INSTANCE LegacyConsumer WITH MaxFaults <- MaxFailures, lost <- unread

(* The desks of a run. *)
TwoDesks == <<"first", "second">>

ASSUME ServicesAssumption ==
    /\ F!BookFeedAssumption
    /\ C!PriorCacheAssumption
    /\ H!HealthMonitorAssumption
    /\ L!LegacyAssumption

feedVars == <<feedClock, sent, running, memory, flush, redis, downSince, feedFailures>>
cacheVars == <<cacheClock, rows, cache, fetch, prior, lost, rowsAt>>
healthVars == <<healthClock, beat, pass, wake, failed, alertedAt, seenAt, beats>>
legacyVars == <<published, trimmed, unread, lastId, unacked, worker, verdicts, executed, faults>>
vars == <<part, feedVars, cacheVars, healthVars, legacyVars>>

Init ==
    /\ part \in {"feed", "cache", "health", "legacy"}
    /\ F!Init /\ C!Init /\ H!Init /\ L!Init

OfFeed == part = "feed" /\ UNCHANGED <<part, cacheVars, healthVars, legacyVars>>
OfLegacy == part = "legacy" /\ UNCHANGED <<part, feedVars, cacheVars, healthVars>>

Next ==
    \/ OfFeed /\ F!Next
    \/ /\ part = "cache"
       /\ C!Next
       /\ UNCHANGED <<part, feedVars, healthVars, legacyVars>>
    \/ /\ part = "health"
       /\ H!Next
       /\ UNCHANGED <<part, feedVars, cacheVars, legacyVars>>
    \/ OfLegacy /\ L!Next

(* The fairness of BookFeed and of LegacyConsumer, each for its own part.  *)
FairSpec ==
    /\ Init
    /\ [][Next]_vars
    /\ WF_vars(OfFeed /\ F!FlushStep)
    /\ \A c \in Consumers : WF_vars(OfLegacy /\ L!ConsumerStep(c))

(* Every component's state is well formed, whichever takes its steps.      *)
TypeOK == F!TypeOK /\ C!TypeOK /\ H!TypeOK /\ L!TypeOK

(* Whatever was received or published gets its turn in the end: a book     *)
(* while its connector runs, a signal while one consumer does.             *)
NothingWaitsForever == F!EventuallyCached /\ L!EventuallyAttempted

(* What each component promises by itself, as its module states it.        *)
CacheFollowsFeed == F!CacheFollowsFeed
PriorIsFresh == C!PriorIsFresh
AlertsTimely == H!AlertsTimely
HandledOnceOrStuck == L!HandledOnceOrStuck
=============================================================================
