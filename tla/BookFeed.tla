------------------------------ MODULE BookFeed ------------------------------
(***************************************************************************)
(* The Bybit order books on their way to the matcher: broker_crypto.py and *)
(* app/services/broker_crypto.py.                                          *)
(*                                                                         *)
(* The WebSocket's thread calls _on_orderbook_update, which replaces the   *)
(* book of a symbol in a dict; ten times a second a task of the event loop *)
(* walks that dict and writes every book to Redis, to live for L2_CACHE_TTL.*)
(* A book is the number of the message that brought it.                    *)
(***************************************************************************)
EXTENDS Integers, FiniteSets

CONSTANTS Symbols,
          Ttl,          \* L2_CACHE_TTL, in ticks
          MaxUpdates,   \* bound: messages per symbol
          MaxClock,     \* bound: ticks
          MaxFailures   \* bound: broken pipelines and stops of the connector

BookFeedAssumption ==
    /\ IsFiniteSet(Symbols)
    /\ {Ttl, MaxUpdates, MaxClock, MaxFailures} \subseteq Nat

VARIABLES clock,
          sent,      \* messages the exchange sent for a symbol
          running,   \* _running of a connected connector
          memory,    \* _l2_cache: the book of each symbol, 0 where there is none
          flush,     \* the flush task: control point, size of the dict as its walk
                     \* began, symbols ahead, commands of the pipeline
          redis,     \* l2_cache:{symbol}: the book last set and when it expires
          downSince, \* when the connector last stopped
          failures

vars == <<clock, sent, running, memory, flush, redis, downSince, failures>>

Update == 0..MaxUpdates
NoBook == 0
Asleep == [at |-> "asleep", size |-> 0, todo |-> {}, pipe |-> [s \in Symbols |-> NoBook]]

TypeOK ==
    /\ clock \in 0..MaxClock
    /\ sent \in [Symbols -> Update]
    /\ running \in BOOLEAN
    /\ memory \in [Symbols -> Update]
    /\ flush \in [at : {"asleep", "walking", "sending"}, size : 0..Cardinality(Symbols),
                  todo : SUBSET Symbols, pipe : [Symbols -> Update]]
    /\ redis \in [Symbols -> [book : Update, expiry : 0..(MaxClock + Ttl)]]
    /\ downSince \in 0..MaxClock
    /\ failures \in 0..MaxFailures

Cached == {s \in Symbols : memory[s] /= NoBook}
Visible(s) == redis[s].book /= NoBook /\ redis[s].expiry > clock

Init ==
    /\ clock = 0
    /\ sent = [s \in Symbols |-> 0]
    /\ running = FALSE
    /\ memory = [s \in Symbols |-> NoBook]
    /\ flush = Asleep
    /\ redis = [s \in Symbols |-> [book |-> NoBook, expiry |-> 0]]
    /\ downSince = 0
    /\ failures = 0

Tick ==
    /\ clock < MaxClock
    /\ clock' = clock + 1
    /\ UNCHANGED <<sent, running, memory, flush, redis, downSince, failures>>

----------------------------------------------------------------------------
(* connect, subscribe_orderbook and the start of the flush task by run. *)
Run ==
    /\ ~running
    /\ running' = TRUE
    /\ UNCHANGED <<clock, sent, memory, flush, redis, downSince, failures>>

(* stop and disconnect, or the death of the process: what was in memory,   *)
(* and a pipeline not yet sent, are gone.                                  *)
Stop ==
    /\ running
    /\ failures < MaxFailures
    /\ failures' = failures + 1
    /\ running' = FALSE
    /\ memory' = [s \in Symbols |-> NoBook]
    /\ flush' = Asleep
    /\ downSince' = clock
    /\ UNCHANGED <<clock, sent, redis>>

(* Mutated form: messages are applied out of order. *)
ReceiveUnordered(s) ==
    /\ running
    /\ sent[s] < MaxUpdates
    /\ sent' = [sent EXCEPT ![s] = @ + 1]
    /\ \E book \in Update \ {NoBook} : memory' = [memory EXCEPT ![s] = book]
    /\ UNCHANGED <<clock, running, flush, redis, downSince, failures>>

(* _on_orderbook_update, in the thread of the WebSocket: at any point of a *)
(* walk. A delta replaces the book as a snapshot does.                     *)
Receive(s) ==
    /\ running
    /\ sent[s] < MaxUpdates
    /\ sent' = [sent EXCEPT ![s] = @ + 1]
    /\ memory' = [memory EXCEPT ![s] = sent[s] + 1]
    /\ UNCHANGED <<clock, running, flush, redis, downSince, failures>>

BeginFlush ==
    /\ running
    /\ flush.at = "asleep"
    /\ Cached /= {}
    /\ flush' = [Asleep EXCEPT !.at = "walking", !.size = Cardinality(Cached), !.todo = Cached]
    /\ UNCHANGED <<clock, sent, running, memory, redis, downSince, failures>>

SameSize == Cardinality(Cached) = flush.size

Visit(s) ==
    /\ flush.at = "walking"
    /\ SameSize
    /\ s \in flush.todo
    /\ flush' = [flush EXCEPT !.todo = @ \ {s}, !.pipe[s] = memory[s]]
    /\ UNCHANGED <<clock, sent, running, memory, redis, downSince, failures>>

EndWalk ==
    /\ flush.at = "walking"
    /\ SameSize
    /\ flush.todo = {}
    /\ flush' = [flush EXCEPT !.at = "sending"]
    /\ UNCHANGED <<clock, sent, running, memory, redis, downSince, failures>>

(* Mutated form: the exception is not caught, the task is gone. *)
AbortWalkForGood ==
    /\ flush.at = "walking"
    /\ ~SameSize
    /\ flush' = [flush EXCEPT !.todo = {}]
    /\ UNCHANGED <<clock, sent, running, memory, redis, downSince, failures>>

(* A first message of another symbol changed the size of the dict: the     *)
(* iterator raises, the except clause logs, and the whole pass is lost.    *)
AbortWalk ==
    /\ flush.at = "walking"
    /\ ~SameSize
    /\ flush' = Asleep
    /\ UNCHANGED <<clock, sent, running, memory, redis, downSince, failures>>

(* Mutated form: SET without EX. *)
SetWithoutTtl(S) ==
    redis' = [s \in Symbols |->
                IF s \in S THEN [book |-> flush.pipe[s], expiry |-> MaxClock + Ttl] ELSE redis[s]]

SetWithTtl(S) ==
    redis' = [s \in Symbols |->
                IF s \in S THEN [book |-> flush.pipe[s], expiry |-> clock + Ttl] ELSE redis[s]]

InPipe == {s \in Symbols : flush.pipe[s] /= NoBook}

Execute ==
    /\ flush.at = "sending"
    /\ SetWithTtl(InPipe)
    /\ flush' = Asleep
    /\ UNCHANGED <<clock, sent, running, memory, downSince, failures>>

(* The connection breaks: only some of the commands were executed. *)
ExecuteFails ==
    /\ flush.at = "sending"
    /\ failures < MaxFailures
    /\ failures' = failures + 1
    /\ \E S \in SUBSET InPipe : SetWithTtl(S)
    /\ flush' = Asleep
    /\ UNCHANGED <<clock, sent, running, memory, downSince>>

FlushStep ==
    \/ BeginFlush
    \/ \E s \in Symbols : Visit(s)
    \/ EndWalk
    \/ AbortWalk
    \/ Execute

Next ==
    \/ Tick
    \/ Run
    \/ Stop
    \/ \E s \in Symbols : Receive(s)
    \/ FlushStep
    \/ ExecuteFails

Spec == Init /\ [][Next]_vars

(* The flush task loops as long as its connector runs; that anybody starts *)
(* the connector, or does so again, is not up to the code.                 *)
Fairness == WF_vars(FlushStep)

FairSpec == Spec /\ Fairness

----------------------------------------------------------------------------
(* The book that Redis holds for a symbol never goes back to an older one, *)
(* over broken pipelines, lost passes and restarts.                        *)
NeverBackwards == \A s \in Symbols : redis'[s].book >= redis[s].book

(* The TTL is for a connector that died: once it has been down for that    *)
(* long, the matcher finds no book. It does nothing for a feed that fell   *)
(* silent while the connector lives, whose book every flush renews.        *)
DeadFeedExpires ==
    ~running /\ clock >= downSince + Ttl => \A s \in Symbols : ~Visible(s)

(* Every book that was received is written, or a newer one, unless the     *)
(* connector stops: lost passes and broken pipelines are made up for.      *)
EventuallyCached ==
    \A s \in Symbols : \A n \in 1..MaxUpdates :
        memory[s] = n ~> redis[s].book >= n \/ ~running

(* What the matcher finds in Redis follows the feed: no step takes it      *)
(* backwards, and it is gone with the connector.                           *)
CacheFollowsFeed == [][NeverBackwards /\ DeadFeedExpires']_vars
=============================================================================
