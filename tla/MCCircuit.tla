----------------------------- MODULE MCCircuit -----------------------------
(* Model values and symmetry for the configurations of CircuitExport.      *)
EXTENDS CircuitExport, TLC

Symmetry == Permutations(Requests)
============================================================================
