---------------------------- MODULE MCCircuitCAS ----------------------------
(* Model values and symmetry for the configurations of CircuitCAS.         *)
EXTENDS CircuitCAS, TLC

Symmetry == Permutations(Requests)
============================================================================
