---------------------------- MODULE MCAlgorithms ----------------------------
(***************************************************************************)
(* Five algorithms in one run: no two of them share a variable, so that    *)
(* `part', chosen once, says which of them takes its steps.                *)
(***************************************************************************)
EXTENDS Integers, Sequences, SequencesExt

CONSTANTS Classes, IofLevels, Hursts, Wins, Totals,          \* Arbiter
          Symbols, Scale, Posteriors, Averages, LotPrice, Accounts, Lot, MinQtys,
                                                             \* Sizing
          Prices, Sizes, Lots, Depth,                        \* VolumeWalk
          Params, Bars, InSample, OutSample, GridWinRates, Sharpes, Trades,
                                                             \* WalkForward
          BatchMax, MaxOrders,                               \* BatchOrders
          None

VARIABLES part,
          signal, macro, winRate, verdict,
          trade, held, size,
          order, raw, result,
          at, window, results, published,
          orders, next, responses, placed, outcome

(* SPY and QQQ move together, AAPL has a group of its own, X none. *)
Group == [s \in Symbols |->
            CASE s \in {"SPY", "QQQ"} -> "large" [] s = "AAPL" -> "tech" [] OTHER -> None]

A == INSTANCE Arbiter WITH NoHistory <- None
S == INSTANCE Sizing WITH Ungrouped <- None
V == INSTANCE VolumeWalk WITH NoOrder <- None
W == INSTANCE WalkForward WITH WinRates <- GridWinRates
B == INSTANCE BatchOrders

ASSUME AlgorithmsAssumption ==
    /\ A!ArbiterAssumption
    /\ S!SizingAssumption
    /\ V!WalkAssumption
    /\ W!WalkForwardAssumption
    /\ B!BatchAssumption

arbiterVars == <<signal, macro, winRate, verdict>>
sizingVars == <<trade, held, size>>
walkVars == <<order, raw, result>>
wfoVars == <<at, window, results, published>>
batchVars == <<orders, next, responses, placed, outcome>>
vars == <<part, arbiterVars, sizingVars, walkVars, wfoVars, batchVars>>

Init ==
    /\ part \in {"arbiter", "sizing", "walk", "wfo", "batch"}
    /\ A!Init /\ S!Init /\ V!Init /\ W!Init /\ B!Init
    /\ part /= "batch" => orders = 0

Next ==
    \/ /\ part = "arbiter"
       /\ A!Evaluate
       /\ UNCHANGED <<part, sizingVars, walkVars, wfoVars, batchVars>>
    \/ /\ part = "sizing"
       /\ S!Calculate
       /\ UNCHANGED <<part, arbiterVars, walkVars, wfoVars, batchVars>>
    \/ /\ part = "walk"
       /\ V!Evaluate
       /\ UNCHANGED <<part, arbiterVars, sizingVars, wfoVars, batchVars>>
    \/ /\ part = "wfo"
       /\ W!Backtest \/ W!Judge \/ W!Publish
       /\ UNCHANGED <<part, arbiterVars, sizingVars, walkVars, batchVars>>
    \/ /\ part = "batch"
       /\ B!PlaceBatch \/ B!CallRaises \/ B!Return
       /\ UNCHANGED <<part, arbiterVars, sizingVars, walkVars, wfoVars>>

Spec == Init /\ [][Next]_vars

(* The property of each component, and that its state is well formed.      *)
EvidenceDecides == A!TypeOK /\ A!EvidenceDecides
SizeKeepsLimits == S!TypeOK /\ S!SizeKeepsLimits
FillsAreFair == V!TypeOK /\ V!FillsAreFair
PublishedIsEarned == W!TypeOK /\ W!PublishedIsEarned
BatchesInOrder == B!TypeOK /\ B!BatchesInOrder
=============================================================================
