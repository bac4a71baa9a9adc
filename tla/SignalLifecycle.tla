--------------------------- MODULE SignalLifecycle ---------------------------
(***************************************************************************)
(* What the signal flow of OrchestrationWorker (its docstring) amounts to, *)
(* without workers, batches, claims or failures: signals are published,    *)
(* handed out once and without a gap, decided once at most, and settled    *)
(* for good once they are decided or dead letters.  A stream of limited    *)
(* length loses the oldest ones.                                           *)
(***************************************************************************)
EXTENDS Naturals

CONSTANTS Signals,   \* numbered in the order of publication
          Verdicts,  \* ways to decide a signal
          Kept       \* signals that the stream keeps at least

VARIABLES published,  \* number of signals published so far
          lost,       \* the oldest `lost` of them are gone from the stream
          handedOut,  \* the oldest `handedOut` have been handed out or missed
          pending,    \* handed out and not settled
          verdict,    \* of each signal, "none" before it is decided
          dead        \* the dead letters

signalVars == <<published, lost, handedOut, pending, verdict, dead>>

Init ==
  /\ published = 0 /\ lost = 0 /\ handedOut = 0
  /\ pending = {} /\ dead = {}
  /\ verdict = [s \in Signals |-> "none"]

Publish ==
  /\ published' = published + 1
  /\ lost' \in lost..published'
  /\ lost' = lost \/ lost' + Kept <= published'
  /\ UNCHANGED <<handedOut, pending, verdict, dead>>

\* The next few, except those that are lost already.
HandOut ==
  /\ handedOut' \in handedOut..published
  /\ pending' = pending \union {s \in (handedOut + 1)..handedOut' : s > lost}
  /\ UNCHANGED <<published, lost, verdict, dead>>

\* Work on a signal may go on after another worker made it a dead letter, or
\* after the stream dropped it, but begins while it is pending.
Accounted(s) == s \in pending \/ s <= lost \/ verdict[s] # "none" \/ s \in dead

Decide(s) ==
  /\ s <= handedOut /\ Accounted(s) /\ verdict[s] = "none"
  /\ \E v \in Verdicts : verdict' = [verdict EXCEPT ![s] = v]
  /\ UNCHANGED <<published, lost, handedOut, pending, dead>>

Bury(s) ==
  /\ s <= handedOut /\ Accounted(s)
  /\ dead' = dead \union {s}
  /\ UNCHANGED <<published, lost, handedOut, pending, verdict>>

\* A signal is settled with something to show for it, unless it is lost.
Settle(s) ==
  /\ s \in pending
  /\ s <= lost \/ verdict[s] # "none" \/ s \in dead
  /\ pending' = pending \ {s}
  /\ UNCHANGED <<published, lost, handedOut, verdict, dead>>

Next ==
  \/ Publish \/ HandOut
  \/ \E s \in Signals : Decide(s) \/ Bury(s) \/ Settle(s)

Spec == Init /\ [][Next]_signalVars
==============================================================================
