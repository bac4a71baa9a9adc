--------------------------- MODULE LegacyConsumer ---------------------------
(***************************************************************************)
(* The consumer loop of the older orchestrator.py: it reads the raw        *)
(* signals in its consumer group, evaluates one after the other, routes    *)
(* what it authorizes to active_executions and acknowledges. It never      *)
(* looks at what is pending. The verdict (module Arbiter) is a free        *)
(* choice, made once for a signal. Nothing restarts a consumer: it runs    *)
(* when somebody starts it, and its process may live on without it.        *)
(***************************************************************************)
EXTENDS Integers, Sequences, FiniteSets

CONSTANTS Consumers,   \* consumers of the group orchestrator_cg
          MaxSignals,  \* bound: messages of the stream
          ReadCount,   \* count of XREADGROUP
          StreamMaxLen,\* maxlen of the webhook's XADD (STREAM_MAXLEN)
          MaxFaults,   \* bound: calls that raise and crashes
          None

LegacyAssumption ==
    /\ IsFiniteSet(Consumers)
    /\ {MaxSignals, MaxFaults} \subseteq Nat
    /\ {ReadCount, StreamMaxLen} \subseteq Nat \ {0}

VARIABLES published,  \* messages in oniquant:raw_signals
          trimmed,    \* the oldest `trimmed' of them are gone from the stream
          lost,       \* ghost: those that went before anybody had read them
          lastId,     \* last-delivered-id of the group
          unacked,    \* its pending entries list
          worker,     \* of each consumer: its task, its batch, its point in a signal
          verdicts,   \* "authorize", "reject" or None while undecided
          executed,   \* entries of active_executions per signal
          faults

streamVars == <<published, trimmed, lost>>
vars == <<streamVars, lastId, unacked, worker, verdicts, executed, faults>>

Signals == 1..MaxSignals
Verdicts == {"authorize", "reject"}
Tasks == {"running", "ended", "none"}
Idle == [task |-> "running", batch |-> <<>>, at |-> "evaluate"]
Down == [Idle EXCEPT !.task = "none"]

TypeOK ==
    /\ published \in 0..MaxSignals
    /\ trimmed \in 0..published
    /\ lost \subseteq 1..trimmed
    /\ lastId \in 0..published
    /\ unacked \subseteq 1..lastId
    /\ worker \in [Consumers -> [task : Tasks, batch : Seq(Signals),
                                 at : {"evaluate", "route", "ack"}]]
    /\ verdicts \in [Signals -> Verdicts \cup {None}]
    /\ executed \in [Signals -> Nat]
    /\ faults \in 0..MaxFaults

Init ==
    /\ published = 0
    /\ trimmed = 0
    /\ lost = {}
    /\ lastId = 0
    /\ unacked = {}
    /\ worker = [c \in Consumers |-> Down]
    /\ verdicts = [s \in Signals |-> None]
    /\ executed = [s \in Signals |-> 0]
    /\ faults = 0

(* XADD with an approximate MAXLEN: any number of the oldest entries goes, *)
(* at least StreamMaxLen stay.                                             *)
Publish ==
    /\ published < MaxSignals
    /\ published' = published + 1
    /\ trimmed' \in {t \in trimmed..published :
                       t = trimmed \/ t + StreamMaxLen <= published + 1}
    /\ lost' = lost \cup {s \in (trimmed + 1)..trimmed' : s > lastId}
    /\ UNCHANGED <<lastId, unacked, worker, verdicts, executed, faults>>

----------------------------------------------------------------------------
Running(c) == worker[c].task = "running"
Free(c) == Running(c) /\ worker[c].batch = <<>>
At(c, point) == worker[c].batch /= <<>> /\ worker[c].at = point
Signal(c) == Head(worker[c].batch)

UpTo(last) == IF last < published THEN last ELSE published

Entries(first, last) == [i \in 1..(last - first + 1) |-> first + i - 1]

(* Mutated form: the read starts with the oldest pending entry.            *)
NewEntriesOrPending ==
    LET oldest == CHOOSE s \in unacked \cup {lastId + 1} :
                    \A p \in unacked \cup {lastId + 1} : s <= p
    IN  Entries(oldest, UpTo(oldest + ReadCount - 1))

(* Mutated form: as many entries as were asked for, whether there or not.  *)
NewEntriesUncapped == Entries(lastId + 1, lastId + ReadCount)

(* XREADGROUP >: what was never delivered and is still there.              *)
NewEntries ==
    LET passed == IF lastId < trimmed THEN trimmed ELSE lastId
    IN  Entries(passed + 1, UpTo(passed + ReadCount))

Deliver(batch) ==
    /\ batch /= <<>>
    /\ lastId' = IF batch[Len(batch)] > lastId THEN batch[Len(batch)] ELSE lastId
    /\ unacked' = unacked \cup {batch[i] : i \in DOMAIN batch}

(* Mutated form: nothing is read while something is pending. *)
ReadWhenSettled(c) ==
    /\ Free(c)
    /\ unacked = {}
    /\ Deliver(NewEntries)
    /\ worker' = [worker EXCEPT ![c].batch = NewEntries]
    /\ UNCHANGED <<streamVars, verdicts, executed, faults>>

Read(c) ==
    /\ Free(c)
    /\ Deliver(NewEntries)
    /\ worker' = [worker EXCEPT ![c].batch = NewEntries]
    /\ UNCHANGED <<streamVars, verdicts, executed, faults>>

GoTo(c, point) == worker' = [worker EXCEPT ![c].at = point]

Drop(c) == worker' = [worker EXCEPT ![c].batch = Tail(@), ![c].at = "evaluate"]

(* Mutated form: the signal is acknowledged before it is routed. *)
EvaluateAcked(c) ==
    /\ At(c, "evaluate")
    /\ \E v \in Verdicts :
         /\ verdicts[Signal(c)] \in {None, v}
         /\ verdicts' = [verdicts EXCEPT ![Signal(c)] = v]
         /\ GoTo(c, IF v = "authorize" THEN "route" ELSE "ack")
    /\ unacked' = unacked \ {Signal(c)}
    /\ UNCHANGED <<streamVars, lastId, executed, faults>>

(* evaluate_signal up to its decision. *)
Evaluate(c) ==
    /\ At(c, "evaluate")
    /\ \E v \in Verdicts :
         /\ verdicts[Signal(c)] \in {None, v}
         /\ verdicts' = [verdicts EXCEPT ![Signal(c)] = v]
         /\ GoTo(c, IF v = "authorize" THEN "route" ELSE "ack")
    /\ UNCHANGED <<streamVars, lastId, unacked, executed, faults>>

(* _route_signal *)
Route(c) ==
    /\ At(c, "route")
    /\ executed' = [executed EXCEPT ![Signal(c)] = @ + 1]
    /\ GoTo(c, "ack")
    /\ UNCHANGED <<streamVars, lastId, unacked, verdicts, faults>>

Ack(c) ==
    /\ At(c, "ack")
    /\ unacked' = unacked \ {Signal(c)}
    /\ Drop(c)
    /\ UNCHANGED <<streamVars, lastId, verdicts, executed, faults>>

Fault == faults < MaxFaults /\ faults' = faults + 1

(* A payload that cannot be decoded, or a call that raises before it had   *)
(* its effect: the next signal is taken and this one stays pending.        *)
SignalFails(c) ==
    /\ worker[c].batch /= <<>>
    /\ Fault
    /\ Drop(c)
    /\ UNCHANGED <<streamVars, lastId, unacked, verdicts, executed>>

(* The effect of XADD or XACK took place, and its reply is lost. *)
ReplyLost(c) ==
    /\ worker[c].batch /= <<>>
    /\ Fault
    /\ \/ /\ worker[c].at = "route"
          /\ executed' = [executed EXCEPT ![Signal(c)] = @ + 1]
          /\ UNCHANGED unacked
       \/ /\ worker[c].at = "ack"
          /\ unacked' = unacked \ {Signal(c)}
          /\ UNCHANGED executed
    /\ Drop(c)
    /\ UNCHANGED <<streamVars, lastId, verdicts>>

(* The reply of XREADGROUP is lost, and the loop goes on after a pause.    *)
ReadFails(c) ==
    /\ Free(c)
    /\ Fault
    /\ Deliver(NewEntries)
    /\ UNCHANGED <<streamVars, worker, verdicts, executed>>

(* The process dies, or is stopped with its task.                          *)
Crash(c) ==
    /\ worker[c].task /= "none"
    /\ Fault
    /\ worker' = [worker EXCEPT ![c] = Down]
    /\ UNCHANGED <<streamVars, lastId, unacked, verdicts, executed>>

(* The group is there from its first signal (id 0, or BUSYGROUP), and its  *)
(* pending entries are not asked for.                                      *)
Start(c) ==
    /\ worker[c].task = "none"
    /\ worker' = [worker EXCEPT ![c] = Idle]
    /\ UNCHANGED <<streamVars, lastId, unacked, verdicts, executed, faults>>

(* PING or XGROUP CREATE raises: the task ends, the process waits for a    *)
(* signal to stop.                                                         *)
StartFails(c) ==
    /\ worker[c].task = "none"
    /\ Fault
    /\ worker' = [worker EXCEPT ![c].task = "ended"]
    /\ UNCHANGED <<streamVars, lastId, unacked, verdicts, executed>>

ConsumerStep(c) == Read(c) \/ Evaluate(c) \/ Route(c) \/ Ack(c)

Next ==
    \/ Publish
    \/ \E c \in Consumers :
         \/ ConsumerStep(c) \/ Start(c) \/ StartFails(c)
         \/ SignalFails(c) \/ ReplyLost(c) \/ ReadFails(c) \/ Crash(c)

Spec == Init /\ [][Next]_vars

(* The loop never ends by itself. That a consumer is started, and again    *)
(* after it died, is not up to the code.                                   *)
Fairness == \A c \in Consumers : WF_vars(ConsumerStep(c))

FairSpec == Spec /\ Fairness

----------------------------------------------------------------------------
InBatch(s) ==
    \E c \in Consumers : \E i \in DOMAIN worker[c].batch : worker[c].batch[i] = s

(* Pending, and in no hands. *)
Stuck(s) == s \in unacked /\ ~InBatch(s)

(* An authorized signal is routed to execution at most once, over crashes, *)
(* failed calls and lost replies: what was delivered is not read again.    *)
ExecutedAtMostOnce == \A s \in Signals : executed[s] <= 1

(* The other side of it: a signal that failed, or whose consumer died,     *)
(* stays pending for ever and is never executed, though the code says it   *)
(* "will be re-delivered to another consumer".                             *)
FailedIsStuck ==
    \A s \in Signals : Stuck(s) => Stuck(s)' /\ executed'[s] = executed[s]

(* A signal that was delivered and is no longer pending was rejected, or   *)
(* it was authorized and its execution is in the stream. Only what the     *)
(* stream's MAXLEN took before anybody had read it has neither.            *)
AckedIsDone ==
    \A s \in (1..lastId) \ lost :
        s \notin unacked =>
            verdicts[s] = "reject" \/ (verdicts[s] = "authorize" /\ executed[s] = 1)

(* As long as one consumer keeps running, every signal is acknowledged,    *)
(* stuck or trimmed in the end, whatever happens to the other consumers    *)
(* and to the signals before it: no signal waits behind a failed one.      *)
EventuallyAttempted ==
    (\E c \in Consumers : <>[]Running(c)) =>
        \A s \in Signals :
            (s <= published) ~> (s \in lost \/ (s <= lastId /\ ~InBatch(s)))

(* A signal is settled at most once, or it is stuck for ever.              *)
HandledOnceOrStuck ==
    [][FailedIsStuck /\ ExecutedAtMostOnce' /\ AckedIsDone']_vars
=============================================================================
