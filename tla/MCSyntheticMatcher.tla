-------------------------- MODULE MCSyntheticMatcher --------------------------
(* Instances of SyntheticMatcher for TLC. *)
EXTENDS SyntheticMatcher, TLC

\* Matchers never act on each other's identity.
MatcherSymmetry == Permutations(Matchers)
==============================================================================
