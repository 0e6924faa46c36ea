---------------------- MODULE MCActivationComponentJournal ----------------------
(* Two callers on two sets of two components. *)
EXTENDS ActivationComponentJournal, TLC

CONSTANTS a, b, alpha, beta, route, policy, v1, v2, v3

OnePins == [s \in Sets |-> "pins"]

Symmetry == Permutations({a, b}) \cup Permutations({alpha, beta}) \cup Permutations({v1, v2, v3})
=============================================================================
