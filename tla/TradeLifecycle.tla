--------------------------- MODULE TradeLifecycle ---------------------------
(***************************************************************************)
(* What the memory engine promises of authorized trades, without its       *)
(* commands, snapshots or failures (docstring of TradeMemoryEngine): a     *)
(* trade is authorized with a time of expiry, waits, and is settled once,  *)
(* by promotion to the match stream, by expiry or as corrupt.              *)
(***************************************************************************)
EXTENDS Naturals

CONSTANTS Trades, Times

VARIABLES clock, expiry, status

lifecycleVars == <<clock, expiry, status>>

Outcomes == {"promoted", "expired", "discarded"}

Init ==
  /\ clock = 0
  /\ expiry = [t \in Trades |-> 0]
  /\ status = [t \in Trades |-> "absent"]

Tick ==
  /\ clock' = clock + 1 /\ clock' \in Times
  /\ UNCHANGED <<expiry, status>>

Authorize(t, e) ==
  /\ status[t] = "absent"
  /\ status' = [status EXCEPT ![t] = "pending"]
  /\ expiry' = [expiry EXCEPT ![t] = e]
  /\ UNCHANGED clock

\* Waiting trades settle, several at a time; nothing expires before its time,
\* and a settled trade stays as it is.
Settle ==
  /\ status' \in [Trades -> Outcomes \union {"absent", "pending"}]
  /\ \A t \in Trades :
       \/ status'[t] = status[t]
       \/ /\ status[t] = "pending" /\ status'[t] \in Outcomes
          /\ status'[t] = "expired" => expiry[t] <= clock
  /\ UNCHANGED <<clock, expiry>>

Next ==
  \/ Tick
  \/ \E t \in Trades, e \in Times : Authorize(t, e)
  \/ Settle

Spec == Init /\ [][Next]_lifecycleVars
==============================================================================
