------------------------------ MODULE IBGateway ------------------------------
(***************************************************************************)
(* The calls of the IBKR connector around its limiter: every call takes a  *)
(* token and sends; a request for market depth (request_l2,                *)
(* request_l2_snapshot) then waits half a second for the book to arrive    *)
(* and sends a cancelMktDepth, which takes no token.                       *)
(***************************************************************************)
EXTENDS TokenBucket, FiniteSets

CONSTANTS DepthCallers,  \* the callers that ask for market depth
          Half,          \* the sleep for the book, in ticks
          None

ASSUME GatewayAssumption ==
    /\ IsFiniteSet(DepthCallers) /\ DepthCallers \subseteq Callers
    /\ Half \in Nat \ {0}
    /\ None \notin Nat

VARIABLES open,    \* when the depth request of a caller was sent
          cancels  \* history: when each cancelMktDepth was sent

gatewayVars == <<vars, open, cancels>>

GatewayTypeOK ==
    /\ TypeOK
    /\ open \in [DepthCallers -> 0..clock \cup {None}]
    /\ cancels \in Seq(0..clock)

GatewayInit ==
    /\ Init
    /\ open = [c \in DepthCallers |-> None]
    /\ cancels = <<>>

Busy(c) == c \in DepthCallers /\ open[c] /= None

----------------------------------------------------------------------------
GatewayTick ==
    /\ \/ Tick
       \/ /\ \E c \in DepthCallers : Busy(c) /\ clock < open[c] + Half
          /\ clock' = clock + 1
          /\ UNCHANGED <<tokens, lastRefill, queue, wake, sent>>
    /\ UNCHANGED <<open, cancels>>

(* qualify, place_order, request_l2; a task makes one call after another.  *)
Request(c) ==
    /\ ~Busy(c)
    /\ Call(c)
    /\ UNCHANGED <<open, cancels>>

(* A granted call sends its message; one for depth is open from then on.   *)
Send ==
    /\ AcquireAtOnce \/ WakeUp
    /\ open' = [c \in DepthCallers |-> IF c = Head(queue) THEN clock ELSE open[c]]
    /\ UNCHANGED cancels

Wait == Sleep /\ UNCHANGED <<open, cancels>>

(* Mutated form: the book is not waited for. *)
CancelAtOnce(c) ==
    /\ Busy(c)
    /\ cancels' = Append(cancels, clock)
    /\ open' = [open EXCEPT ![c] = None]
    /\ UNCHANGED vars

Cancel(c) ==
    /\ Busy(c)
    /\ clock >= open[c] + Half
    /\ cancels' = Append(cancels, clock)
    /\ open' = [open EXCEPT ![c] = None]
    /\ UNCHANGED vars

GatewayNext ==
    \/ GatewayTick
    \/ \E c \in Callers : Request(c)
    \/ Send
    \/ Wait
    \/ \E c \in DepthCallers : Cancel(c)

(* Time passes and the event loop runs every task that is ready.           *)
GatewayFairness ==
    /\ WF_gatewayVars(GatewayTick)
    /\ WF_gatewayVars(Send \/ Wait)
    /\ \A c \in DepthCallers : WF_gatewayVars(Cancel(c))

GatewaySpec == GatewayInit /\ [][GatewayNext]_gatewayVars /\ GatewayFairness

----------------------------------------------------------------------------
(* All that reaches the gateway between two moments: what the limiter lets *)
(* through, and, past the limiter, one cancellation of each depth caller   *)
(* and one more for each time that it waited for a book.                   *)
Within(times, from, to) == Cardinality({i \in DOMAIN times : times[i] \in from..to})

Messages == {sent[i] : i \in DOMAIN sent} \cup {cancels[i] : i \in DOMAIN cancels}

GatewayBound ==
    \A from, to \in Messages :
        from <= to =>
          Within(sent, from, to) + Within(cancels, from, to) <=
            (Capacity + (to - from)) \div Cost
                + Cardinality(DepthCallers) * (1 + (to - from) \div Half)
=============================================================================
