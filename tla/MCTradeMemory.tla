---------------------------- MODULE MCTradeMemory ----------------------------
(* Instances of TradeMemory for TLC. *)
EXTENDS TradeMemory, TLC

\* Engines never act on each other's identity.
EngineSymmetry == Permutations(Engines)
==============================================================================
